---- MODULE Spec2Model ----
(***************************************************************************)
(* Model of the sipmanager dialog package: the Manager's registry and      *)
(* receive task, the per-dialog task (run loop, resend timers, hangup),    *)
(* the response/request handlers and the application side (NewDialog,      *)
(* Hangup, draining the unbuffered event channels).                        *)
(*                                                                         *)
(* Tasks: the receive task (ReceiveMessages -> HandleIncomingMessage ->    *)
(* handleResponse/handleRequest), one dialog task per dialog (run), and    *)
(* the application.  A handler runs atomically up to a send on one of the  *)
(* unbuffered channels (errChan, stateChan, peerChan), where it blocks     *)
(* until the application receives.                                         *)
(***************************************************************************)
EXTENDS Integers, Sequences, FiniteSets, TLC

(* ---- bounds of the model ---- *)
MaxPackets == 3
MaxWire == 5
MaxCSeq == 2

(* ---- program constants ---- *)
StatusProceeding == 1
StatusRinging == 2
StatusAnswered == 3
StatusHangup == 4
StatusFailed == 5
DefaultMaxForwards == 70

(* Manager.maxResends, as set by WithMaxResends. *)
maxResends == 1

DialogIds == {1, 2}
CallIDs == {1, 2}
InviteCSeq == 1
InviteMaxForwards == {0, 1}

VARIABLES dlg, registry, rx, app, events, wire, sockOpen, panicked, npkt,
          inbound, sdpio

vars == <<dlg, registry, rx, app, events, wire, sockOpen, panicked, npkt,
          inbound, sdpio>>

(* The state of the library's functions that no dialog step touches: the
   datagram ReceiveMessages annotates, the SDP text Parse reads. *)
libvars == <<inbound, sdpio>>

NoEvent == [ch |-> "none", val |-> "none"]
Ev(c, v) == [ch |-> c, val |-> v]

StatusName(s) ==
    CASE s = StatusProceeding -> "Proceeding"
      [] s = StatusRinging -> "Ringing"
      [] s = StatusAnswered -> "Answered"
      [] s = StatusHangup -> "Hangup"
      [] s = StatusFailed -> "Failed"
      [] OTHER -> "None"

(* A message object of ours that is kept and re-sent: INVITE or BYE.
   Request is the Request-URI ("orig": the one the application gave,
   "contact": the Contact of a redirect, "remote": the Contact of the
   peer's 2xx); Route is "nil" or a loose route ("lr"). *)
NoMsg == [CSeq |-> 0, MaxForwards |-> 0, Request |-> "none", Route |-> "nil"]

(* dialogState, plus the position of the dialog task. *)
dialogState(cid, mf, route) ==
    [pc |-> "start", callID |-> cid, state |-> 0,
     routes |-> <<>>, addr |-> "none", dest |-> "none",
     invite |-> [CSeq |-> InviteCSeq, MaxForwards |-> mf,
                 Request |-> "orig", Route |-> route],
     bye |-> NoMsg,
     remote |-> "nil",
     request |-> "nil", requestResends |-> 0, requestTimer |-> "nil",
     response |-> "nil", responseCSeq |-> 0,
     responseResends |-> 0, responseTimer |-> "nil",
     lSeq |-> 0, rSeq |-> 0,
     selReq |-> "nil", selResp |-> "nil",
     pending |-> NoEvent,
     closed |-> FALSE, hangupClosed |-> FALSE]

NoDialog == [dialogState(0, 0, "nil") EXCEPT !.pc = "none"]

(* Dialog: the application's handle. *)
Dialog == [have |-> FALSE, hangupDone |-> FALSE, hpc |-> "idle"]

(* An incoming message, as far as the handlers look at it.  method is the
   Method of a request and the CSeqMethod of a response; viaHost and branch
   say whether the topmost Via equals the current request's by host/port
   and by branch. *)
Msg(isResp, v2, cid, status, method, cseq, viaHost, branch, contact, sdp, mf) ==
    [isResp |-> isResp, version2 |-> v2, call |-> cid, status |-> status,
     method |-> method, cseq |-> cseq, viaHost |-> viaHost, branch |-> branch,
     contact |-> contact, sdp |-> sdp, mf |-> mf]

NoPacket == Msg(FALSE, TRUE, 0, 0, "none", 0, TRUE, TRUE, FALSE, FALSE, 0)

(* What the application has received on OnErr, OnState and OnPeer. *)
NoEvents == [err |-> <<>>, state |-> <<>>, peer |-> <<>>]
Received(es, ev) == [es EXCEPT ![ev.ch] = Append(@, ev.val)]

RxIdle == [pc |-> "idle", d |-> 0, ev |-> NoEvent, cont |-> "ret", msg |-> NoPacket]

(* ---- the wire ---- *)
WReq(cid, method, cseq, addr, mf, uri) ==
    [kind |-> "req", call |-> cid, method |-> method, status |-> 0,
     cseq |-> cseq, addr |-> addr, mf |-> mf, uri |-> uri]
WRsp(cid, status) ==
    [kind |-> "rsp", call |-> cid, method |-> "none", status |-> status,
     cseq |-> 0, addr |-> "none", mf |-> 0, uri |-> "none"]

(* What was written to the socket: the requests that are retransmitted
   (INVITE, CANCEL, BYE), the ACKs and the responses, each in the order of
   transmission.  Of a response the status and the Call-ID are recorded. *)
NoWire == [req |-> <<>>, ack |-> <<>>, rsp |-> <<>>]
Sent(w, m) ==
    IF m.kind = "rsp" THEN [w EXCEPT !.rsp = Append(@, m)]
    ELSE IF m.method = "ACK" THEN [w EXCEPT !.ack = Append(@, m)]
    ELSE [w EXCEPT !.req = Append(@, m)]
WireLen(w) == Len(w.req) + Len(w.ack) + Len(w.rsp)

(* PopulateMessage: MaxForwards of a request defaults to 70. *)
PopulateMessage(mf) == IF mf = 0 THEN DefaultMaxForwards ELSE mf

(* Manager.Send on a request object with Max-Forwards mf: the value left in
   the object, and whether the packet was written. *)
SendMF(mf) == IF PopulateMessage(mf) > 0 THEN PopulateMessage(mf) - 1 ELSE PopulateMessage(mf)
SendOK(mf, so) == /\ ~(PopulateMessage(mf) > 0 /\ SendMF(mf) = 0)
                  /\ so

(* Result of a procedure of the dialog: the record, the wire, the return
   value and the event it is about to send on a channel (if any). *)
Res(r, w, ret, ev) == [r |-> r, w |-> w, ret |-> ret, ev |-> ev]

ReqMsg(r) == IF r.request = "invite" THEN r.invite ELSE r.bye
ReqMethod(r) == IF r.request = "invite" THEN "INVITE" ELSE "BYE"

(* Send the current request object (shared by popRoute and resendRequest). *)
SendRequestObj(r, w, so) ==
    LET m == ReqMsg(r)
        mf2 == SendMF(m.MaxForwards)
        ok == SendOK(m.MaxForwards, so)
        r2 == IF r.request = "invite"
              THEN [r EXCEPT !.invite.MaxForwards = mf2]
              ELSE [r EXCEPT !.bye.MaxForwards = mf2]
        w2 == IF ok THEN Sent(w, WReq(r.callID, ReqMethod(r), m.CSeq, r.addr, mf2,
                                      m.Request))
              ELSE w
    IN Res(r2, w2, ok, NoEvent)

(* Assigning a timer field: a channel the dialog task's select already
   waits on is no longer the field's channel, but still fires. *)
SetRequestTimer(r, v) ==
    [r EXCEPT !.requestTimer = v, !.selReq = IF @ = "cur" THEN "stale" ELSE @]
SetResponseTimer(r, v) ==
    [r EXCEPT !.responseTimer = v, !.selResp = IF @ = "cur" THEN "stale" ELSE @]

(* popRoute that puts the address it takes back at the end of the list. *)
popRoute_Requeue(r, w, so) ==
    IF r.routes = <<>>
    THEN Res(r, w, FALSE, Ev("err", "FailedToContact"))
    ELSE LET r1 == [r EXCEPT !.addr = Head(r.routes),
                             !.routes = Append(Tail(r.routes), Head(r.routes))]
             r2 == IF r1.state < StatusAnswered
                   THEN [r1 EXCEPT !.rSeq = 0, !.remote = "nil", !.lSeq = ReqMsg(r1).CSeq]
                   ELSE r1
             r3 == SetRequestTimer([r2 EXCEPT !.requestResends = 0], "armed")
         IN SendRequestObj(r3, w, so)

popRoute(r, w, so) ==
    IF r.routes = <<>>
    THEN Res(r, w, FALSE, Ev("err", "FailedToContact"))
    ELSE LET r1 == [r EXCEPT !.addr = Head(r.routes), !.routes = Tail(r.routes)]
             r2 == IF r1.state < StatusAnswered
                   THEN [r1 EXCEPT !.rSeq = 0, !.remote = "nil", !.lSeq = ReqMsg(r1).CSeq]
                   ELSE r1
             r3 == SetRequestTimer([r2 EXCEPT !.requestResends = 0], "armed")
         IN SendRequestObj(r3, w, so)

(* RouteAddress: the resolver's answer, an error or a non-empty list; only
   an SRV lookup (wantSRV) can give more than one entry. *)
ResolverResults(wantSRV) ==
    IF wantSRV THEN {<<>>, <<"A">>, <<"A", "B">>} ELSE {<<>>, <<"A">>}

(* RouteMessage(nil, nil, request): the host to resolve is the Route's if
   the request has one, else the Request-URI's. *)
RouteMessage(m) == IF m.Route # "nil" THEN "route" ELSE m.Request

(* sendRequest(request) with the resolver answering routes (<<>>: error). *)
sendRequest(r, which, routes, w, so) ==
    IF routes = <<>>
    THEN Res(r, w, FALSE, Ev("err", "ResolveError"))
    ELSE popRoute([r EXCEPT !.request = which, !.routes = routes,
                            !.dest = RouteMessage(IF which = "invite" THEN r.invite
                                                  ELSE r.bye)], w, so)

(* resendRequest: the test it starts with, "nothing to send, or the
   resend timer was cancelled". *)
resendRequestSkip(r) == r.request = "nil" \/ r.requestTimer = "nil"

(* resendRequest after that test: the fields are not locked, so a handler
   of the receive task may have run in between. *)
resendRequest(r, w, so) ==
    IF r.requestResends < maxResends
    THEN LET s == SendRequestObj(r, w, so)
         IN IF s.ret
            THEN Res(SetRequestTimer([s.r EXCEPT !.requestResends = @ + 1], "armed"),
                     s.w, TRUE, NoEvent)
            ELSE s
    ELSE popRoute(r, w, so)

(* sendResponse that writes the 200 OK without keeping it for re-sending. *)
sendResponse_Unreliable(r, cseq, w, so) ==
    Res(r, IF so THEN Sent(w, WRsp(r.callID, 200)) ELSE w, so, NoEvent)

(* sendResponse: the reliable 200 OK to a re-INVITE with CSeq cseq. *)
sendResponse(r, cseq, w, so) ==
    LET r1 == SetResponseTimer([r EXCEPT !.response = "set", !.responseCSeq = cseq,
                                         !.responseResends = 0], "armed")
    IN Res(r1, IF so THEN Sent(w, WRsp(r.callID, 200)) ELSE w, so, NoEvent)

resendResponse(r, w, so) ==
    IF r.response = "nil" \/ r.responseTimer = "nil"
    THEN Res(r, w, TRUE, NoEvent)
    ELSE IF r.responseResends < maxResends
         THEN IF so
              THEN Res(SetResponseTimer([r EXCEPT !.responseResends = @ + 1], "armed"),
                       Sent(w, WRsp(r.callID, 200)), TRUE, NoEvent)
              ELSE Res(r, w, FALSE, NoEvent)
         ELSE popRoute(r, w, so)

(* NewBye that forgets `*lSeq++`. *)
NewBye_NoIncrement(r) ==
    [r EXCEPT !.bye = [CSeq |-> r.lSeq, MaxForwards |-> 0,
                       Request |-> "remote", Route |-> "nil"]]

(* NewBye(invite, remote, &lSeq): increments lSeq; the BYE is a new object. *)
NewBye(r) ==
    [r EXCEPT !.lSeq = @ + 1,
              !.bye = [CSeq |-> r.lSeq + 1, MaxForwards |-> 0,
                       Request |-> "remote", Route |-> "nil"]]

(* NewBye dereferences remote.Contact. *)
hangupPanics(r) == r.state = StatusAnswered /\ r.remote = "nil"

(* hangup() that sends a CANCEL before any provisional response too. *)
hangup_CancelEarly(r, routes, w, so) ==
    CASE r.state \in {0, StatusProceeding, StatusRinging} ->
            Res(r, IF so THEN Sent(w, WReq(r.callID, "CANCEL", r.invite.CSeq, r.addr,
                                             SendMF(0), r.invite.Request))
                         ELSE w, so, NoEvent)
      [] r.state = StatusAnswered -> sendRequest(NewBye(r), "bye", routes, w, so)
      [] r.state = StatusHangup -> Res(r, w, TRUE, NoEvent)
      [] OTHER -> Res([r EXCEPT !.state = StatusHangup], w, FALSE,
                      Ev("state", StatusName(StatusHangup)))

(* hangup(), with the resolver answering routes if a BYE is sent. *)
hangup(r, routes, w, so) ==
    CASE r.state \in {StatusProceeding, StatusRinging} ->
            Res(r, IF so THEN Sent(w, WReq(r.callID, "CANCEL", r.invite.CSeq, r.addr,
                                             SendMF(0), r.invite.Request))
                         ELSE w, so, NoEvent)
      [] r.state = StatusAnswered -> sendRequest(NewBye(r), "bye", routes, w, so)
      [] r.state = StatusHangup -> Res(r, w, TRUE, NoEvent)
      [] OTHER -> Res([r EXCEPT !.state = StatusHangup], w, FALSE,
                      Ev("state", StatusName(StatusHangup)))

(* ---- the dialog task: run() ---- *)

(* Entering the select of run(): the channels to wait on are read from the
   fields once; a consumed timer channel never fires again. *)
EnterSelect(r) ==
    [r EXCEPT !.pc = "select",
              !.selReq = IF r.requestTimer = "armed" THEN "cur" ELSE "nil",
              !.selResp = IF r.responseTimer = "armed" THEN "cur" ELSE "nil"]

(* cleanup(): close the three streams and delete the Call-ID's entry.  A
   task blocked in a send on one of the streams panics. *)
cleanup(d, r, w) ==
    /\ dlg' = [dlg EXCEPT ![d] = [r EXCEPT !.pc = "done", !.closed = TRUE,
                                           !.selReq = "nil", !.selResp = "nil",
                                           !.pending = NoEvent]]
    /\ registry' = [registry EXCEPT ![r.callID] = 0]
    /\ panicked' = (rx.pc = "send" /\ rx.d = d)
    /\ wire' = w

(* What run() does with the value a step returned: block in the channel
   send the step ends with, return (and clean up), or select again. *)
RunStep(d, res, inLoop) ==
    IF res.ev # NoEvent
    THEN /\ dlg' = [dlg EXCEPT ![d] = [res.r EXCEPT !.pc = "blocked", !.pending = res.ev,
                                                   !.selReq = "nil", !.selResp = "nil"]]
         /\ wire' = res.w
         /\ UNCHANGED <<registry, panicked>>
    ELSE IF ~res.ret \/ (inLoop /\ res.r.state >= StatusHangup)
         THEN cleanup(d, res.r, res.w)
         ELSE /\ dlg' = [dlg EXCEPT ![d] = EnterSelect(res.r)]
              /\ wire' = res.w
              /\ UNCHANGED <<registry, panicked>>

Running == ~panicked
CanSend(n) == WireLen(wire) + n <= MaxWire

(* run(): sendRequest(dls.invite) *)
DialogStart(d) ==
    /\ Running /\ CanSend(1)
    /\ dlg[d].pc = "start"
    /\ \E routes \in ResolverResults(dlg[d].state < StatusAnswered) :
          RunStep(d, sendRequest(dlg[d], "invite", routes, wire, sockOpen), FALSE)
    /\ UNCHANGED <<rx, app, events, sockOpen, npkt>>
    /\ UNCHANGED libvars

(* case <-dls.requestTimer: the timer fires and resendRequest tests
   whether there is something to re-send. *)
DialogRequestTimer(d) ==
    /\ Running /\ CanSend(1)
    /\ dlg[d].pc = "select"
    /\ dlg[d].selReq # "nil"
    /\ LET r == IF dlg[d].selReq = "cur"
                THEN [dlg[d] EXCEPT !.requestTimer = "spent"] ELSE dlg[d]
       IN IF resendRequestSkip(r)
          THEN RunStep(d, Res(r, wire, TRUE, NoEvent), TRUE)
          ELSE /\ dlg' = [dlg EXCEPT ![d] = [r EXCEPT !.pc = "resend",
                                                       !.selReq = "nil", !.selResp = "nil"]]
               /\ UNCHANGED <<registry, wire, panicked>>
    /\ UNCHANGED <<rx, app, events, sockOpen, npkt>>
    /\ UNCHANGED libvars

(* resendRequest goes on: it re-sends the request, or pops the next route. *)
DialogResend(d) ==
    /\ Running /\ CanSend(1)
    /\ dlg[d].pc = "resend"
    /\ RunStep(d, resendRequest(dlg[d], wire, sockOpen), TRUE)
    /\ UNCHANGED <<rx, app, events, sockOpen, npkt>>
    /\ UNCHANGED libvars

(* case <-dls.responseTimer *)
DialogResponseTimer(d) ==
    /\ Running /\ CanSend(1)
    /\ dlg[d].pc = "select"
    /\ dlg[d].selResp # "nil"
    /\ LET r == IF dlg[d].selResp = "cur"
                THEN [dlg[d] EXCEPT !.responseTimer = "spent"] ELSE dlg[d]
       IN RunStep(d, resendResponse(r, wire, sockOpen), TRUE)
    /\ UNCHANGED <<rx, app, events, sockOpen, npkt>>
    /\ UNCHANGED libvars

(* case <-dls.hangupChan: a value sent by Hangup(), or the channel closed *)
DialogHangup(d) ==
    /\ Running /\ CanSend(1)
    /\ dlg[d].pc = "select"
    /\ \/ /\ app[d].hpc = "send"
          /\ app' = [app EXCEPT ![d].hpc = "close"]
       \/ /\ dlg[d].hangupClosed
          /\ UNCHANGED app
    /\ IF hangupPanics(dlg[d])
       THEN /\ panicked' = TRUE
            /\ UNCHANGED <<dlg, registry, wire>>
       ELSE \E routes \in ResolverResults(dlg[d].state < StatusAnswered) :
              RunStep(d, hangup(dlg[d], routes, wire, sockOpen), TRUE)
    /\ UNCHANGED <<rx, events, sockOpen, npkt>>
    /\ UNCHANGED libvars

(* The application receives the event the dialog task is blocked sending;
   the task then returns from run(). *)
DialogDeliver(d) ==
    /\ Running
    /\ dlg[d].pc = "blocked"
    /\ app[d].have
    /\ events' = [events EXCEPT ![d] = Received(@, dlg[d].pending)]
    /\ cleanup(d, dlg[d], wire)
    /\ UNCHANGED <<rx, app, sockOpen, npkt>>
    /\ UNCHANGED libvars

(* ---- the handlers, run by the receive task ---- *)

(* Result of a handler up to its next channel send: the record, the wire,
   the event to send (if any), where to go on after it, and whether the
   handler dereferenced nil. *)
HRes(r, w, ev, cont, panic) == [r |-> r, w |-> w, ev |-> ev, cont |-> cont, panic |-> panic]
OfRes(res) == HRes(res.r, res.w, res.ev, "ret", FALSE)

ResponseMatch(r, msg) ==
    /\ msg.isResp
    /\ msg.cseq = ReqMsg(r).CSeq
    /\ msg.method = ReqMethod(r)
    /\ msg.viaHost
    /\ msg.branch

transition(r, state) == [r EXCEPT !.state = state]

(* A redirect that replaces the Request-URI and keeps the Route. *)
Redirect_KeepRoute(r) == [r EXCEPT !.invite.Request = "contact"]

(* handleResponse, 301/302: the INVITE gets the Contact of the response as
   Request-URI and loses its Route. *)
Redirect(r) == [r EXCEPT !.invite.Request = "contact", !.invite.Route = "nil"]

(* handleResponse after `dls.remote == nil` sent the Answered event. *)
handleResponseRemote(r, w) == HRes([r EXCEPT !.remote = "2xx"], w, NoEvent, "ret", FALSE)

(* handleResponse from `dls.routes = nil` on. *)
handleResponseSwitch(r0, msg, routes, w, so) ==
    LET r == SetRequestTimer([r0 EXCEPT !.routes = <<>>], "nil")
    IN CASE msg.status = 100 ->
              HRes(transition(r, StatusProceeding), w,
                   Ev("state", StatusName(StatusProceeding)), "ret", FALSE)
         [] msg.status \in {180, 183} ->
              HRes(transition(r, StatusRinging), w,
                   Ev("state", StatusName(StatusRinging)), "ret", FALSE)
         [] msg.status = 200 ->
              IF msg.method = "INVITE"
              THEN IF r.remote = "nil"
                   THEN HRes(transition(r, StatusAnswered), w,
                             Ev("state", StatusName(StatusAnswered)), "remote", FALSE)
                   ELSE handleResponseRemote(r, w)
              ELSE IF msg.method \in {"BYE", "CANCEL"}
                   THEN HRes(transition(r, StatusHangup), w,
                             Ev("state", StatusName(StatusHangup)), "ret", FALSE)
                   ELSE HRes(r, w, NoEvent, "ret", FALSE)
         [] msg.status = 503 ->
              IF r.request = "invite"
              THEN OfRes(popRoute(r, w, so))
              ELSE HRes(r, w, Ev("err", "ResponseError"), "ret", FALSE)
         [] msg.status \in {301, 302} ->
              IF ~msg.contact
              THEN HRes(r, w, NoEvent, "ret", TRUE)
              ELSE OfRes(sendRequest(Redirect(r), "invite", routes, w, so))
         [] OTHER ->
              IF msg.status > 200
              THEN HRes(r, w, Ev("err", "ResponseError"), "ret", FALSE)
              ELSE HRes(r, w, NoEvent, "ret", FALSE)

(* NewAck(msg, invite), as Send writes it. *)
NewAck(r, msg) == WReq(r.callID, "ACK", msg.cseq, r.addr, SendMF(0), "contact")

handleResponse(r, msg, routes, w, so) ==
    IF r.request = "nil"
    THEN HRes(r, w, NoEvent, "ret", TRUE)
    ELSE IF ~ResponseMatch(r, msg)
    THEN HRes(r, w, NoEvent, "ret", FALSE)
    ELSE IF msg.status >= 200 /\ r.request = "invite" /\ ~msg.contact
    THEN HRes(r, w, Ev("err", "NoContact"), "ret", FALSE)
    ELSE IF msg.status >= 200 /\ r.request = "invite" /\ ~so
    THEN HRes(r, w, Ev("err", "AckSendError"), "ret", FALSE)
    ELSE LET w1 == IF msg.status >= 200 /\ r.request = "invite"
                   THEN Sent(w, NewAck(r, msg)) ELSE w
         IN IF msg.status <= 200 /\ msg.sdp
            THEN HRes(r, w1, Ev("peer", "sdp"), "switch", FALSE)
            ELSE handleResponseSwitch(r, msg, routes, w1, so)

(* NewResponse(msg, status), as Send writes it. *)
NewResponse(r, msg, status) == WRsp(msg.call, status)

(* handleRequest's switch without the transition on BYE. *)
handleRequestSwitch_NoHangup(r, msg, w, so) ==
    IF msg.method = "BYE"
    THEN HRes(r, IF so THEN Sent(w, NewResponse(r, msg, 200)) ELSE w, NoEvent, "ret", FALSE)
    ELSE HRes(r, w, NoEvent, "ret", FALSE)

(* handleRequest from `switch msg.Method` on. *)
handleRequestSwitch(r, msg, w, so) ==
    CASE msg.method = "BYE" ->
           IF so
           THEN HRes(transition(r, StatusHangup), Sent(w, NewResponse(r, msg, 200)),
                     Ev("state", StatusName(StatusHangup)), "ret", FALSE)
           ELSE HRes(r, w, NoEvent, "ret", FALSE)
      [] msg.method = "OPTIONS" ->
           HRes(r, IF so THEN Sent(w, NewResponse(r, msg, 200)) ELSE w, NoEvent, "ret", FALSE)
      [] msg.method = "INVITE" ->
           IF msg.sdp
           THEN HRes([r EXCEPT !.remote = "reinvite"], w, Ev("peer", "sdp"), "response", FALSE)
           ELSE OfRes(sendResponse([r EXCEPT !.remote = "reinvite"], msg.cseq, w, so))
      [] msg.method = "ACK" ->
           HRes(SetResponseTimer([r EXCEPT !.response = "nil"], "nil"), w, NoEvent, "ret", FALSE)
      [] OTHER ->
           HRes(r, IF so THEN Sent(w, NewResponse(r, msg, 405)) ELSE w, NoEvent, "ret", FALSE)

(* handleRequest that records the CSeq before it compares it. *)
handleRequest_EarlyRSeq(r, msg, w, so) ==
    IF msg.mf <= 0
    THEN IF so
         THEN HRes(r, Sent(w, NewResponse(r, msg, 483)), Ev("err", "RemoteLoop"), "ret", FALSE)
         ELSE HRes(r, w, NoEvent, "ret", FALSE)
    ELSE IF r.rSeq # 0 /\ msg.cseq < r.rSeq
    THEN HRes([r EXCEPT !.rSeq = msg.cseq],
              IF so THEN Sent(w, NewResponse(r, msg, 500)) ELSE w, NoEvent, "ret", FALSE)
    ELSE handleRequestSwitch([r EXCEPT !.rSeq = msg.cseq], msg, w, so)

handleRequest(r, msg, w, so) ==
    IF msg.mf <= 0
    THEN IF so
         THEN HRes(r, Sent(w, NewResponse(r, msg, 483)), Ev("err", "RemoteLoop"), "ret", FALSE)
         ELSE HRes(r, w, NoEvent, "ret", FALSE)
    ELSE IF r.rSeq # 0 /\ msg.cseq < r.rSeq
    THEN HRes(r, IF so THEN Sent(w, NewResponse(r, msg, 500)) ELSE w, NoEvent, "ret", FALSE)
    ELSE handleRequestSwitch([r EXCEPT !.rSeq = msg.cseq], msg, w, so)

(* The handler resumed after the application received its event. *)
Resume(r, cont, msg, routes, w, so) ==
    CASE cont = "switch" -> handleResponseSwitch(r, msg, routes, w, so)
      [] cont = "remote" -> handleResponseRemote(r, w)
      [] cont = "response" -> OfRes(sendResponse(r, msg.cseq, w, so))
      [] OTHER -> HRes(r, w, NoEvent, "ret", FALSE)

(* ---- the receive task ---- *)

Statuses == {100, 180, 200, 302, 404, 503}
Methods == {"INVITE", "BYE", "OPTIONS", "ACK", "INFO"}

Responses ==
    { m \in { Msg(TRUE, v2, cid, st, me, cs, vh, br, co, sd, 0) :
                 v2 \in BOOLEAN, cid \in CallIDs, st \in Statuses,
                 me \in {"INVITE", "BYE", "CANCEL"}, cs \in InviteCSeq..InviteCSeq + 1,
                 vh \in BOOLEAN, br \in BOOLEAN, co \in BOOLEAN, sd \in BOOLEAN } :
        /\ (~m.version2 \/ ~m.viaHost \/ ~m.branch)
               => (m.status = 180 /\ m.method = "INVITE" /\ m.cseq = InviteCSeq
                   /\ m.contact /\ ~m.sdp
                   /\ Cardinality({b \in {m.version2, m.viaHost, m.branch} : ~b}) = 1
                   /\ (m.version2 \/ (m.viaHost /\ m.branch))
                   /\ (m.viaHost \/ m.branch))
        /\ m.sdp => m.status \in {180, 200}
        /\ ~m.contact => m.status \in {200, 302, 404} }

Requests ==
    { m \in { Msg(FALSE, v2, cid, 0, me, cs, TRUE, TRUE, TRUE, sd, mf) :
                 v2 \in BOOLEAN, cid \in CallIDs, me \in Methods, cs \in 0..MaxCSeq,
                 sd \in BOOLEAN, mf \in {0, DefaultMaxForwards} } :
        /\ ~m.version2 => (m.method = "OPTIONS" /\ m.cseq = MaxCSeq /\ m.mf > 0 /\ ~m.sdp)
        /\ m.sdp => m.method = "INVITE"
        /\ m.mf = 0 => m.method \in {"BYE", "OPTIONS"} }

(* The receive task takes what a handler left: it panics, blocks in the
   handler's channel send, or returns to reading the socket. *)
RxStep(d, h, msg) ==
    /\ dlg' = [dlg EXCEPT ![d] = h.r]
    /\ wire' = h.w
    /\ IF h.panic \/ (h.ev # NoEvent /\ h.r.closed)
       THEN /\ panicked' = TRUE
            /\ rx' = RxIdle
       ELSE /\ panicked' = FALSE
            /\ rx' = IF h.ev # NoEvent
                     THEN [pc |-> "send", d |-> d, ev |-> h.ev, cont |-> h.cont, msg |-> msg]
                     ELSE RxIdle

(* HandleIncomingMessage that looks the Call-ID up before it looks at the
   SIP version. *)
HandleIncomingMessage_NoVersionCheck(msg) ==
    /\ Running /\ CanSend(2)
    /\ sockOpen
    /\ rx.pc = "idle"
    /\ npkt' = npkt + 1
    /\ IF registry[msg.call] # 0
       THEN LET d == registry[msg.call]
            IN IF msg.isResp
               THEN \E routes \in ResolverResults(dlg[d].state < StatusAnswered) :
                      RxStep(d, handleResponse(dlg[d], msg, routes, wire, sockOpen), msg)
               ELSE RxStep(d, handleRequest(dlg[d], msg, wire, sockOpen), msg)
       ELSE /\ wire' = Sent(wire, WRsp(msg.call, IF msg.version2 THEN 481 ELSE 505))
            /\ UNCHANGED <<dlg, rx, panicked>>
    /\ UNCHANGED <<registry, app, events, sockOpen>>
    /\ UNCHANGED libvars

(* HandleIncomingMessage(msg), run by the receive task for the npkt+1st
   datagram it read. *)
HandleIncomingMessage(msg) ==
    /\ Running /\ CanSend(2)
    /\ sockOpen
    /\ rx.pc = "idle"
    /\ npkt' = npkt + 1
    /\ IF ~msg.version2
       THEN /\ wire' = Sent(wire, WRsp(msg.call, 505))
            /\ UNCHANGED <<dlg, rx, panicked>>
       ELSE IF registry[msg.call] # 0
            THEN LET d == registry[msg.call]
                 IN IF msg.isResp
                    THEN \E routes \in ResolverResults(dlg[d].state < StatusAnswered) :
                           RxStep(d, handleResponse(dlg[d], msg, routes, wire, sockOpen), msg)
                    ELSE RxStep(d, handleRequest(dlg[d], msg, wire, sockOpen), msg)
            ELSE /\ wire' = Sent(wire, WRsp(msg.call, 481))
                 /\ UNCHANGED <<dlg, rx, panicked>>
    /\ UNCHANGED <<registry, app, events, sockOpen>>
    /\ UNCHANGED libvars

(* ReceiveMessages: one more datagram is read from the socket, parses
   and is given to HandleIncomingMessage. *)
ReceiveMessages(msg) ==
    /\ npkt < MaxPackets
    /\ HandleIncomingMessage(msg)

(* What sip.ParseMsg leaves in msg when it fails: nil, or a message that
   is filled in part. *)
ParseMsgFailed == {"nil", "partial"}

(* ReceiveMessages for a datagram that does not parse: the error is
   logged and the loop body goes on with msg: addReceived(nil) dereferences
   nil; a message filled in part is annotated and dispatched like any
   other. *)
ReceiveMalformed(msg) ==
    /\ npkt < MaxPackets
    /\ Running /\ sockOpen
    /\ rx.pc = "idle"
    /\ \E res \in ParseMsgFailed :
          IF res = "nil"
          THEN /\ panicked' = TRUE
               /\ npkt' = npkt + 1
               /\ UNCHANGED <<dlg, registry, rx, app, events, wire, sockOpen>>
               /\ UNCHANGED libvars
          ELSE HandleIncomingMessage(msg)

(* The application receives the event the handler is blocked sending; the
   handler goes on. *)
RxDeliver(d) ==
    /\ Running /\ CanSend(1)
    /\ rx.pc = "send"
    /\ rx.d = d
    /\ app[d].have
    /\ events' = [events EXCEPT ![d] = Received(@, rx.ev)]
    /\ \E routes \in ResolverResults(dlg[d].state < StatusAnswered) :
          RxStep(d, Resume(dlg[d], rx.cont, rx.msg, routes, wire, sockOpen), rx.msg)
    /\ UNCHANGED <<registry, app, sockOpen, npkt>>
    /\ UNCHANGED libvars

(* ---- ReceiveMessages: the annotation of an incoming datagram ---- *)

(* Everything but the datagram being annotated. *)
dialogvars == <<dlg, registry, rx, app, events, wire, sockOpen, panicked, npkt>>

(* Param.Get() of a parameter the Via does not carry. *)
NoParam == "nil"

ViaHosts == {"ip1", "local"}
SourceAddrs == {"ip1", "ip2"}
Ports == {5060, 5062}

(* fmt.Sprintf("%d", addr.Port()) *)
PortString(port) == IF port = 5060 THEN "5060" ELSE "5062"

(* m.via, the Via of this server. *)
LocalVia == [Host |-> "local", Port |-> 5060]

(* The Via a proxy further from us put under the topmost one. *)
NextVia == [Host |-> "ip2", Port |-> 5060, rport |-> NoParam, received |-> NoParam]

(* The topmost Via of a datagram: host, port, and the rport and received
   parameters, each absent, without a value, or with one. *)
TopVias ==
    [Host : ViaHosts, Port : Ports,
     rport : {NoParam, ""} \cup {PortString(p) : p \in Ports},
     received : {NoParam, ""} \cup SourceAddrs]

(* The parsed datagrams and the addresses ReadFromUDPAddrPort reports. *)
Datagrams ==
    [isResp : BOOLEAN,
     Via : {<<v>> : v \in TopVias} \cup {<<v, NextVia>> : v \in TopVias}]

AddrPorts == [Addr : SourceAddrs, Port : Ports]

NoDatagram == [isResp |-> FALSE, Via |-> <<>>]
NoAddrPort == [Addr |-> "none", Port |-> 0]
NoOut == [sent |-> FALSE, panic |-> FALSE, Via |-> <<>>]
NoInbound ==
    [pc |-> "idle", pkt |-> NoDatagram, msg |-> NoDatagram, addr |-> NoAddrPort,
     out |-> NoOut]

(* CompareHostPort of two Vias. *)
CompareHostPort(a, b) == a.Host = b.Host /\ a.Port = b.Port

(* addReceived(msg, addr) *)
addReceived(msg, addr) ==
    IF msg.isResp
    THEN msg
    ELSE LET top == msg.Via[1]
             v1 == IF top.Port # addr.Port
                   THEN IF top.rport = NoParam \/ top.rport = ""
                        THEN [top EXCEPT !.rport = PortString(addr.Port)]
                        ELSE top
                   ELSE top
             v2 == IF v1.Host # addr.Addr /\ v1.received = NoParam
                   THEN [v1 EXCEPT !.received = addr.Addr]
                   ELSE v1
         IN [msg EXCEPT !.Via[1] = v2]

(* The Via chain of the response as Send writes it: NewResponse copies
   msg.Via, and RouteMessage drops the topmost Via when it is our own and
   then reads the host of what is left. *)
ResponseVia(msg) ==
    LET via == IF CompareHostPort(LocalVia, msg.Via[1]) THEN Tail(msg.Via) ELSE msg.Via
    IN IF via = <<>>
       THEN [sent |-> FALSE, panic |-> TRUE, Via |-> <<>>]
       ELSE [sent |-> TRUE, panic |-> FALSE, Via |-> via]

(* ReadFromUDPAddrPort and sip.ParseMsg: a datagram and its source. *)
ReadDatagram(pkt, addr) ==
    /\ inbound.pc = "idle"
    /\ inbound' = [pc |-> "read", pkt |-> pkt, msg |-> pkt, addr |-> addr, out |-> NoOut]
    /\ UNCHANGED <<dialogvars, sdpio>>

(* m.addReceived(msg, addr) *)
AnnotateDatagram ==
    /\ inbound.pc = "read"
    /\ inbound' = [inbound EXCEPT !.pc = "annotated",
                                  !.msg = addReceived(inbound.msg, inbound.addr)]
    /\ UNCHANGED <<dialogvars, sdpio>>

(* HandleIncomingMessage: a response goes to its dialog, a request is
   answered with m.Send(m.NewResponse(msg, status)). *)
AnswerDatagram ==
    /\ inbound.pc = "annotated"
    /\ inbound' = IF inbound.msg.isResp
                  THEN [inbound EXCEPT !.pc = "dispatched"]
                  ELSE [inbound EXCEPT !.pc = "answered", !.out = ResponseVia(inbound.msg)]
    /\ UNCHANGED <<dialogvars, sdpio>>

(* ---- package sdp: Parse and Append ---- *)

(* The longest text: its lines after "v=0". *)
MaxLines == 4

(* A line of an SDP text after "v=0": its type letter `k` and what the
   parser reads in it. For o=: s1 the user, s2 the address. For c=: s1
   the address type, s2 the address. For s= and t=: s1 the value. For m=:
   key the media type, n the port, pt the port count after "/", s1 the
   protocol, pts the payload types. For a=: key the text before ":",
   and after it pt, s1 and s2 as the attribute has them. For any other
   letter: s1 the text after "=". k = "" is a line without "=" in second
   place. short says what an a= line lacks: "colon" when it has no ":"
   (strings.SplitN gives one part), "value" when the text after the ":"
   has fewer than two space-separated fields. *)
Line(k, key, pt, s1, s2, n, pts) ==
    [k |-> k, key |-> key, pt |-> pt, s1 |-> s1, s2 |-> s2, n |-> n, pts |-> pts,
     short |-> ""]
ShortLine(key, short) == [Line("a", key, 0, "", "", 0, <<>>) EXCEPT !.short = short]

(* strconv.Atoi and strconv.Itoa on the numbers the texts use; Atoi of
   anything else is an error (-1 here). *)
Numerals == {<<"0", 0>>, <<"20", 20>>, <<"8000", 8000>>, <<"48000", 48000>>}
Atoi(s) == IF \E p \in Numerals : p[1] = s
           THEN (CHOOSE p \in Numerals : p[1] = s)[2]
           ELSE -1
Itoa(i) == (CHOOSE p \in Numerals : p[2] = i)[1]

(* util.IsIPv6 *)
IsIPv6(addr) == addr = "::1"

(* The built-in table of static payload types: PCMU is 0 at 8000 Hz. *)
StandardCodecs ==
    {[PT |-> 0, Name |-> "PCMU", Rate |-> 8000, Param |-> "", Fmtp |-> "", valid |-> FALSE]}

isDynamicPT(pt) == pt >= 96

(* NewCodec(pt): the codec, or "unknown" for a static type the table
   does not have. *)
NewCodecKnown(pt) == isDynamicPT(pt) \/ \E c \in StandardCodecs : c.PT = pt
NewCodec(pt) ==
    IF isDynamicPT(pt)
    THEN [PT |-> pt, Name |-> "", Rate |-> 0, Param |-> "", Fmtp |-> "", valid |-> FALSE]
    ELSE CHOOSE c \in StandardCodecs : c.PT = pt

IsValid(codec) == IF isDynamicPT(codec.PT) THEN codec.valid ELSE TRUE

MediaTypes == {"audio", "video", "text", "application", "message", "image"}
IsKnownMediaType(name) == IF name \in MediaTypes THEN name ELSE ""
TransportProtocols == {"RTP/AVP", "RTP/AVPF", "RTP/SAVP", "RTP/SAVPF", "TCP/IP", "udp"}
IsKnownTransportProtocol(name) == IF name \in TransportProtocols THEN name ELSE ""

(* NewMediaFromLine(line, strict): err is the error, if any; nil says
   that the line disables the media (port 0). *)
NoMedia ==
    [Type |-> "", Proto |-> "", Port |-> 0, NumPorts |-> 0, Addr |-> "", Direction |-> "",
     Codecs |-> <<>>, Ptime |-> 0, Maxptime |-> 0, Attrs |-> <<>>, Other |-> <<>>]

(* NewMediaFromLine that returns a Media for port 0 too. *)
NewMediaFromLine_KeepDisabled(line, strict) ==
    IF Len(line.pts) = 0
    THEN [err |-> TRUE, nil |-> TRUE, m |-> NoMedia]
    ELSE IF strict /\ line.key \notin MediaTypes
    THEN [err |-> TRUE, nil |-> TRUE, m |-> NoMedia]
    ELSE IF strict /\ line.s1 \notin TransportProtocols
    THEN [err |-> TRUE, nil |-> TRUE, m |-> NoMedia]
    ELSE IF \E i \in 1..Len(line.pts) : ~NewCodecKnown(line.pts[i])
    THEN [err |-> TRUE, nil |-> TRUE, m |-> NoMedia]
    ELSE [err |-> FALSE, nil |-> FALSE,
          m |-> [NoMedia EXCEPT !.Type = IsKnownMediaType(line.key),
                                !.Proto = IsKnownTransportProtocol(line.s1),
                                !.Port = line.n, !.NumPorts = line.pt,
                                !.Codecs = [i \in 1..Len(line.pts) |-> NewCodec(line.pts[i])]]]

NewMediaFromLine(line, strict) ==
    IF Len(line.pts) = 0
    THEN [err |-> TRUE, nil |-> TRUE, m |-> NoMedia]
    ELSE IF strict /\ line.key \notin MediaTypes
    THEN [err |-> TRUE, nil |-> TRUE, m |-> NoMedia]
    ELSE IF line.n = 0
    THEN [err |-> FALSE, nil |-> TRUE, m |-> NoMedia]
    ELSE IF strict /\ line.s1 \notin TransportProtocols
    THEN [err |-> TRUE, nil |-> TRUE, m |-> NoMedia]
    ELSE IF \E i \in 1..Len(line.pts) : ~NewCodecKnown(line.pts[i])
    THEN [err |-> TRUE, nil |-> TRUE, m |-> NoMedia]
    ELSE [err |-> FALSE, nil |-> FALSE,
          m |-> [NoMedia EXCEPT !.Type = IsKnownMediaType(line.key),
                                !.Proto = IsKnownTransportProtocol(line.s1),
                                !.Port = line.n, !.NumPorts = line.pt,
                                !.Codecs = [i \in 1..Len(line.pts) |-> NewCodec(line.pts[i])]]]

(* &SDP{Session: "-", Time: "0 0"}; Origin nil *)
NoOrigin == [nil |-> TRUE, User |-> "", ID |-> "", Version |-> "", Addr |-> ""]
NewSDP ==
    [Origin |-> NoOrigin, Addr |-> "", Media |-> <<>>, Session |-> "-", Time |-> "0 0",
     Direction |-> "", Attrs |-> <<>>, Other |-> <<>>]

(* The locals of Parse: err = it has returned nil and a hard error (why
   says which), warn = foundWarnings, panic = it has aborted with a
   run-time panic instead of returning. *)
ParseStart ==
    [err |-> FALSE, why |-> "", warn |-> FALSE, panic |-> FALSE, sdp |-> NewSDP,
     foundOrigin |-> FALSE, foundConn |-> FALSE, inMedia |-> FALSE,
     skippingInvalidMedia |-> FALSE]

Fail(p, why) == [p EXCEPT !.err = TRUE, !.why = why]

(* An anomaly: a hard error in strict mode, a warning otherwise. *)
Anomaly(p, strict, why) == IF strict THEN Fail(p, why) ELSE [p EXCEPT !.warn = TRUE]

MediaDirections == {"sendrecv", "sendonly", "recvonly", "inactive"}

(* What an a= line has after the ":" and the [2]string it is kept as. *)
AttrValue(line) == <<line.pt, line.s1, line.s2>>
Attr(line) == <<line.key, AttrValue(line)>>

(* parseConnLine: the address, or "" for an error. *)
parseConnLine(line) == IF line.s1 \in {"IP4", "IP6"} THEN line.s2 ELSE ""

(* parseOriginLine *)
parseOriginLine(line) ==
    [nil |-> FALSE, User |-> line.s1, ID |-> line.key, Version |-> line.key, Addr |-> line.s2]

(* SDP.addAttribute: ok = no error. *)
sdpAddAttribute(sdp, line) ==
    IF line.key = "tool"
    THEN [ok |-> TRUE, v |-> sdp]
    ELSE IF line.key \in MediaDirections
    THEN IF sdp.Direction # ""
         THEN [ok |-> FALSE, v |-> sdp]
         ELSE [ok |-> TRUE, v |-> [sdp EXCEPT !.Direction = line.key]]
    ELSE IF line.key = ""
    THEN [ok |-> FALSE, v |-> sdp]
    ELSE [ok |-> TRUE, v |-> [sdp EXCEPT !.Attrs = Append(@, Attr(line))]]

HasCodec(media, pt) == \E i \in 1..Len(media.Codecs) : media.Codecs[i].PT = pt
CodecIndex(media, pt) ==
    CHOOSE i \in 1..Len(media.Codecs) :
        /\ media.Codecs[i].PT = pt
        /\ \A j \in 1..(i - 1) : media.Codecs[j].PT # pt

(* Codec.addRtpmap: Name and Rate are written before the rate is found
   not to be a number; valid is set only when it is one. *)
codecAddRtpmap(codec, line) ==
    IF line.s2 = ""
    THEN codec
    ELSE IF Atoi(line.s2) < 0
    THEN [codec EXCEPT !.Name = line.s1, !.Rate = 0]
    ELSE [codec EXCEPT !.Name = line.s1, !.Rate = Atoi(line.s2), !.valid = TRUE]

(* Media.addRtpmap that gives the rtpmap to the first codec of the media,
   whatever its payload type. *)
mediaAddRtpmap_FirstCodec(media, line) ==
    IF Len(media.Codecs) > 0
    THEN [ok |-> TRUE, v |-> [media EXCEPT !.Codecs[1] = codecAddRtpmap(@, line)]]
    ELSE [ok |-> FALSE, v |-> media]

(* Media.addRtpmap: the error of Codec.addRtpmap is not looked at. *)
mediaAddRtpmap(media, line) ==
    IF HasCodec(media, line.pt)
    THEN [ok |-> TRUE,
          v |-> [media EXCEPT !.Codecs[CodecIndex(media, line.pt)] = codecAddRtpmap(@, line)]]
    ELSE [ok |-> FALSE, v |-> media]

(* Media.addFmtp *)
mediaAddFmtp(media, line) ==
    IF HasCodec(media, line.pt)
    THEN [ok |-> TRUE,
          v |-> [media EXCEPT !.Codecs[CodecIndex(media, line.pt)].Fmtp = line.s1]]
    ELSE [ok |-> FALSE, v |-> media]

(* Media.addAttribute *)
mediaAddAttribute(media, line) ==
    IF line.key = "ptime"
    THEN IF Atoi(line.s1) > 0
         THEN [ok |-> TRUE, v |-> [media EXCEPT !.Ptime = Atoi(line.s1)]]
         ELSE [ok |-> FALSE, v |-> media]
    ELSE IF line.key = "maxptime"
    THEN IF Atoi(line.s1) > 0
         THEN [ok |-> TRUE, v |-> [media EXCEPT !.Maxptime = Atoi(line.s1)]]
         ELSE [ok |-> FALSE, v |-> media]
    ELSE IF line.key = "rtpmap"
    THEN mediaAddRtpmap(media, line)
    ELSE IF line.key \in MediaDirections
    THEN IF media.Direction # ""
         THEN [ok |-> FALSE, v |-> media]
         ELSE [ok |-> TRUE, v |-> [media EXCEPT !.Direction = line.key]]
    ELSE IF line.key = "fmtp"
    THEN mediaAddFmtp(media, line)
    ELSE IF line.key = ""
    THEN [ok |-> FALSE, v |-> media]
    ELSE [ok |-> TRUE, v |-> [media EXCEPT !.Attrs = Append(@, Attr(line))]]

(* Media.addAttribute indexes lineParts[1] for ptime, maxptime, rtpmap
   and fmtp without looking at len(lineParts), and Media.addRtpmap and
   Media.addFmtp index tokens[0] and tokens[1] without looking at
   len(tokens): an index out of range. *)
mediaAddAttributePanics(line) ==
    \/ line.key \in {"ptime", "maxptime", "rtpmap", "fmtp"} /\ line.short = "colon"
    \/ line.key \in {"rtpmap", "fmtp"} /\ line.short = "value"

(* The body of Parse's loop for one line. *)
ParseLine(p, line, strict) ==
    LET last == Len(p.sdp.Media)
    IN IF p.err \/ p.panic THEN p
       ELSE IF line.k = "" THEN Anomaly(p, strict, "invalid line")
       ELSE IF line.k = "s" THEN [p EXCEPT !.sdp.Session = line.s1]
       ELSE IF line.k = "t" THEN [p EXCEPT !.sdp.Time = line.s1]
       ELSE IF line.k = "m"
       THEN LET r == NewMediaFromLine(line, strict)
                q == [p EXCEPT !.skippingInvalidMedia = FALSE]
            IN IF r.err
               THEN IF strict
                    THEN Fail(q, "media line")
                    ELSE [q EXCEPT !.skippingInvalidMedia = TRUE, !.warn = TRUE,
                                   !.inMedia = FALSE]
               ELSE IF r.nil
               THEN [q EXCEPT !.skippingInvalidMedia = TRUE, !.inMedia = FALSE]
               ELSE [q EXCEPT !.sdp.Media = Append(@, r.m), !.inMedia = TRUE]
       ELSE IF line.k = "c"
       THEN IF p.skippingInvalidMedia THEN p
            ELSE IF ~p.inMedia
            THEN IF p.foundConn THEN Anomaly(p, strict, "extra c= line")
                 ELSE IF parseConnLine(line) = "" THEN Fail(p, "conn line")
                 ELSE [p EXCEPT !.sdp.Addr = parseConnLine(line), !.foundConn = TRUE]
            ELSE IF p.sdp.Media[last].Addr # "" THEN Anomaly(p, strict, "extra c= line")
                 ELSE IF parseConnLine(line) = "" THEN Fail(p, "conn line")
                 ELSE [p EXCEPT !.sdp.Media[last].Addr = parseConnLine(line)]
       ELSE IF line.k = "o"
       THEN IF p.inMedia \/ p.skippingInvalidMedia THEN Anomaly(p, strict, "o= after media")
            ELSE IF ~p.sdp.Origin.nil THEN Anomaly(p, strict, "extra o= line")
            ELSE [p EXCEPT !.sdp.Origin = parseOriginLine(line), !.foundOrigin = TRUE]
       ELSE IF line.k = "a"
       THEN IF p.skippingInvalidMedia THEN p
            ELSE IF ~p.inMedia
            THEN LET r == sdpAddAttribute(p.sdp, line)
                 IN IF r.ok THEN [p EXCEPT !.sdp = r.v] ELSE Anomaly(p, strict, "attribute")
            ELSE IF mediaAddAttributePanics(line) THEN [p EXCEPT !.panic = TRUE]
            ELSE LET r == mediaAddAttribute(p.sdp.Media[last], line)
                 IN IF r.ok THEN [p EXCEPT !.sdp.Media[last] = r.v]
                    ELSE Anomaly(p, strict, "attribute")
       ELSE IF p.skippingInvalidMedia THEN p
            ELSE IF ~p.inMedia
            THEN [p EXCEPT !.sdp.Other = Append(@, <<line.k, line.s1>>)]
            ELSE [p EXCEPT !.sdp.Media[last].Other = Append(@, <<line.k, line.s1>>)]

(* Parse after its loop: the mandatory lines, the media count and the
   codecs without rtpmap. *)
ParseEnd(p, strict) ==
    IF p.err \/ p.panic THEN p
    ELSE IF ~p.foundConn /\ ~p.foundOrigin THEN Fail(p, "mandatory")
    ELSE IF Len(p.sdp.Media) = 0 THEN Fail(p, "no media")
    ELSE IF \E i \in 1..Len(p.sdp.Media) :
               \E j \in 1..Len(p.sdp.Media[i].Codecs) : ~IsValid(p.sdp.Media[i].Codecs[j])
    THEN Anomaly(p, strict, "missing rtpmap")
    ELSE p

(* Parse(s, strict) for the lines of s after "v=0". *)
RECURSIVE ParseLines(_, _, _)
ParseLines(p, lines, strict) ==
    IF lines = <<>> THEN p
    ELSE ParseLines(ParseLine(p, Head(lines), strict), Tail(lines), strict)

(* ---- Append: from the structure to the text ---- *)

RECURSIVE Flatten(_)
Flatten(seqs) == IF seqs = <<>> THEN <<>> ELSE Head(seqs) \o Flatten(Tail(seqs))

VersionLine == Line("v", "", 0, "0", "", 0, <<>>)

(* The c= line of an address. *)
ConnLine(addr) == Line("c", "", 0, IF IsIPv6(addr) THEN "IP6" ELSE "IP4", addr, 0, <<>>)

(* The a= line of an attribute kept in Attrs. *)
AttrLine(attr) == Line("a", attr[1], attr[2][1], attr[2][2], attr[2][3], 0, <<>>)

(* Origin.Append: the o= line of the origin. *)
OriginAppend(origin) == <<Line("o", origin.ID, 0, origin.User, origin.Addr, 0, <<>>)>>

(* Codec.Append *)
CodecAppend(codec) ==
    <<Line("a", "rtpmap", codec.PT, codec.Name, Itoa(codec.Rate), 0, <<>>)>>
    \o (IF codec.Fmtp # ""
        THEN <<Line("a", "fmtp", codec.PT, codec.Fmtp, "", 0, <<>>)>>
        ELSE <<>>)

(* Media.Append with the direction written before the codecs. *)
MediaAppend_DirectionFirst(media) ==
    <<Line("m", media.Type, IF media.NumPorts > 1 THEN media.NumPorts ELSE 0,
           IF media.Proto = "" THEN "RTP/AVP" ELSE media.Proto, "", media.Port,
           [i \in 1..Len(media.Codecs) |-> media.Codecs[i].PT])>>
    \o (IF media.Addr # "" THEN <<ConnLine(media.Addr)>> ELSE <<>>)
    \o (IF media.Direction # ""
        THEN <<Line("a", media.Direction, 0, "", "", 0, <<>>)>> ELSE <<>>)
    \o Flatten([i \in 1..Len(media.Codecs) |-> CodecAppend(media.Codecs[i])])
    \o [i \in 1..Len(media.Attrs) |-> AttrLine(media.Attrs[i])]
    \o (IF media.Ptime > 0
        THEN <<Line("a", "ptime", 0, Itoa(media.Ptime), "", 0, <<>>)>> ELSE <<>>)
    \o (IF media.Maxptime > 0
        THEN <<Line("a", "maxptime", 0, Itoa(media.Maxptime), "", 0, <<>>)>> ELSE <<>>)

(* Media.Append: media.Other is not written. *)
MediaAppend(media) ==
    <<Line("m", media.Type, IF media.NumPorts > 1 THEN media.NumPorts ELSE 0,
           IF media.Proto = "" THEN "RTP/AVP" ELSE media.Proto, "", media.Port,
           [i \in 1..Len(media.Codecs) |-> media.Codecs[i].PT])>>
    \o (IF media.Addr # "" THEN <<ConnLine(media.Addr)>> ELSE <<>>)
    \o Flatten([i \in 1..Len(media.Codecs) |-> CodecAppend(media.Codecs[i])])
    \o [i \in 1..Len(media.Attrs) |-> AttrLine(media.Attrs[i])]
    \o (IF media.Ptime > 0
        THEN <<Line("a", "ptime", 0, Itoa(media.Ptime), "", 0, <<>>)>> ELSE <<>>)
    \o (IF media.Maxptime > 0
        THEN <<Line("a", "maxptime", 0, Itoa(media.Maxptime), "", 0, <<>>)>> ELSE <<>>)
    \o (IF media.Direction # ""
        THEN <<Line("a", media.Direction, 0, "", "", 0, <<>>)>> ELSE <<>>)

(* SDP.Append *)
SDPAppend(sdp) ==
    <<VersionLine>>
    \o OriginAppend(sdp.Origin)
    \o <<Line("s", "", 0, IF sdp.Session = "" THEN "-" ELSE sdp.Session, "", 0, <<>>)>>
    \o <<Line("c", "", 0, IF IsIPv6(sdp.Addr) THEN "IP6" ELSE "IP4",
              IF sdp.Addr = "" THEN "192.0.2.1" ELSE sdp.Addr, 0, <<>>)>>
    \o <<Line("t", "", 0, IF sdp.Time = "" THEN "0 0" ELSE sdp.Time, "", 0, <<>>)>>
    \o [i \in 1..Len(sdp.Attrs) |-> AttrLine(sdp.Attrs[i])]
    \o (IF sdp.Direction # ""
        THEN <<Line("a", sdp.Direction, 0, "", "", 0, <<>>)>> ELSE <<>>)
    \o [i \in 1..Len(sdp.Other) |-> Line(sdp.Other[i][1], "", 0, sdp.Other[i][2], "", 0, <<>>)]
    \o Flatten([i \in 1..Len(sdp.Media) |-> MediaAppend(sdp.Media[i])])

(* Parse(s, strict) of a whole text: "v=0" first, then at least one line. *)
Parse(text, strict) ==
    IF text = <<>> \/ Head(text) # VersionLine THEN Fail(ParseStart, "version")
    ELSE IF Len(text) < 2 THEN Fail(ParseStart, "too few lines")
    ELSE ParseEnd(ParseLines(ParseStart, Tail(text), strict), strict)

(* New(addr, codecs): an audio offer with the given codecs. *)
New(addr, port, codecs) ==
    [Origin |-> [nil |-> FALSE, User |-> "", ID |-> "1", Version |-> "1", Addr |-> addr],
     Addr |-> addr,
     Media |-> <<[Type |-> "audio", Proto |-> "RTP/AVP", Port |-> port, NumPorts |-> 0,
                  Addr |-> "", Direction |-> "", Codecs |-> codecs, Ptime |-> 0,
                  Maxptime |-> 0, Attrs |-> <<>>, Other |-> <<>>]>>,
     Session |-> "", Time |-> "", Direction |-> "", Attrs |-> <<>>, Other |-> <<>>]

(* ---- the texts given to Parse ---- *)

(* The lines the texts are made of. *)
SdpLines ==
    { Line("o", "1", 0, "root", "h1", 0, <<>>),          \* o=root 1 1 IN IP4 h1
      Line("c", "", 0, "IP4", "h1", 0, <<>>),            \* c=IN IP4 h1
      Line("s", "", 0, "call", "", 0, <<>>),             \* s=call
      Line("m", "audio", 0, "RTP/AVP", "", 4000, <<0>>), \* m=audio 4000 RTP/AVP 0
      Line("m", "audio", 1, "RTP/AVP", "", 4000, <<0, 96>>), \* m=audio 4000/1 RTP/AVP 0 96
      Line("m", "foo", 0, "RTP/AVP", "", 4000, <<0>>),   \* m=foo 4000 RTP/AVP 0
      Line("a", "sendrecv", 0, "", "", 0, <<>>),         \* a=sendrecv
      Line("a", "ptime", 0, "20", "", 0, <<>>),          \* a=ptime:20
      Line("a", "ptime", 0, "0", "", 0, <<>>),           \* a=ptime:0
      Line("a", "rtpmap", 96, "opus", "48000", 0, <<>>), \* a=rtpmap:96 opus/48000
      Line("a", "rtpmap", 0, "PCMU", "abc", 0, <<>>),    \* a=rtpmap:0 PCMU/abc
      Line("a", "fmtp", 96, "x", "", 0, <<>>),           \* a=fmtp:96 x
      Line("a", "foo", 0, "bar", "", 0, <<>>),           \* a=foo:bar
      Line("b", "", 0, "AS:64", "", 0, <<>>),            \* b=AS:64
      Line("", "", 0, "", "", 0, <<>>) }                 \* a line without "="

(* The codec lists given to New. *)
OfferCodecs ==
    { <<[PT |-> 0, Name |-> "PCMU", Rate |-> 8000, Param |-> "", Fmtp |-> "", valid |-> FALSE]>>,
      <<[PT |-> 96, Name |-> "opus", Rate |-> 48000, Param |-> "", Fmtp |-> "x", valid |-> FALSE],
        [PT |-> 0, Name |-> "PCMU", Rate |-> 8000, Param |-> "", Fmtp |-> "", valid |-> FALSE]>> }

NoSdp ==
    [pc |-> "parse", n |-> 0, strict |-> ParseStart, lenient |-> ParseStart,
     mode |-> "none", doc |-> NewSDP, out |-> <<>>, again |-> ParseStart]

(* One turn of Parse's loop, in strict mode and in lenient mode on the
   same line. *)
ParseLoop(line) ==
    /\ sdpio.pc = "parse"
    /\ ~sdpio.strict.panic /\ ~sdpio.lenient.panic
    /\ sdpio.n < MaxLines
    /\ sdpio' = [sdpio EXCEPT !.n = @ + 1,
                              !.strict = ParseLine(@, line, TRUE),
                              !.lenient = ParseLine(@, line, FALSE)]
    /\ UNCHANGED <<dialogvars, inbound>>

(* Parse returns. *)
ParseReturn ==
    /\ sdpio.pc = "parse"
    /\ ~sdpio.strict.panic /\ ~sdpio.lenient.panic
    /\ sdpio.n > 0
    /\ sdpio' = [sdpio EXCEPT !.pc = "parsed",
                              !.strict = ParseEnd(@, TRUE),
                              !.lenient = ParseEnd(@, FALSE)]
    /\ UNCHANGED <<dialogvars, inbound>>

(* SDP.String() of what Parse returned, in the one mode or the other. *)
String(strict) ==
    /\ sdpio.pc = "parsed"
    /\ LET p == IF strict THEN sdpio.strict ELSE sdpio.lenient
       IN /\ ~p.err /\ ~p.panic
          /\ ~p.sdp.Origin.nil
          /\ sdpio' = [sdpio EXCEPT !.pc = "serialized",
                                    !.mode = IF strict THEN "strict" ELSE "lenient",
                                    !.doc = p.sdp,
                                    !.out = SDPAppend(p.sdp)]
    /\ UNCHANGED <<dialogvars, inbound>>

(* New(addr, codecs...).String() *)
NewString(codecs) ==
    /\ sdpio.pc = "parse"
    /\ sdpio.n = 0
    /\ sdpio' = [sdpio EXCEPT !.pc = "serialized",
                              !.mode = "new",
                              !.doc = New("h1", 4000, codecs),
                              !.out = SDPAppend(New("h1", 4000, codecs))]
    /\ UNCHANGED <<dialogvars, inbound>>

(* Parse(sdp.String(), true) *)
ParseAgain ==
    /\ sdpio.pc = "serialized"
    /\ sdpio' = [sdpio EXCEPT !.pc = "reparsed", !.again = Parse(sdpio.out, TRUE)]
    /\ UNCHANGED <<dialogvars, inbound>>

(* ---- the application ---- *)

(* NewDialog up to `go dls.run()`: the dialog exists and its task runs. *)
NewDialog(d, cid, mf, route) ==
    /\ Running
    /\ dlg[d].pc = "none"
    /\ \A e \in DialogIds : e < d => app[e].have
    /\ dlg' = [dlg EXCEPT ![d] = dialogState(cid, mf, route)]
    /\ UNCHANGED <<registry, rx, app, events, wire, sockOpen, panicked, npkt>>
    /\ UNCHANGED libvars

(* NewDialog from `m.dialogs[callID] = dls` to its return. *)
NewDialogInsert(d) ==
    /\ Running
    /\ dlg[d].pc # "none"
    /\ ~app[d].have
    /\ registry' = [registry EXCEPT ![dlg[d].callID] = d]
    /\ app' = [app EXCEPT ![d].have = TRUE]
    /\ UNCHANGED <<dlg, rx, events, wire, sockOpen, panicked, npkt>>
    /\ UNCHANGED libvars

(* Dialog.Hangup() up to the send on doHangup (or its early return). *)
Hangup(d) ==
    /\ Running
    /\ app[d].have
    /\ app[d].hpc = "idle"
    /\ app' = [app EXCEPT ![d].hangupDone = TRUE,
                          ![d].hpc = IF app[d].hangupDone THEN "idle" ELSE "send"]
    /\ UNCHANGED <<dlg, registry, rx, events, wire, sockOpen, panicked, npkt>>
    /\ UNCHANGED libvars

(* Dialog.Hangup(): close(d.doHangup), after the dialog task took the value. *)
HangupClose(d) ==
    /\ Running
    /\ app[d].hpc = "close"
    /\ app' = [app EXCEPT ![d].hpc = "idle"]
    /\ dlg' = [dlg EXCEPT ![d].hangupClosed = TRUE]
    /\ UNCHANGED <<registry, rx, events, wire, sockOpen, panicked, npkt>>
    /\ UNCHANGED libvars

(* Manager.Close(): every later write fails and the receive loop ends. *)
Close ==
    /\ Running
    /\ sockOpen
    /\ sockOpen' = FALSE
    /\ UNCHANGED <<dlg, registry, rx, app, events, wire, panicked, npkt>>
    /\ UNCHANGED libvars

Init ==
    /\ dlg = [d \in DialogIds |-> NoDialog]
    /\ registry = [c \in CallIDs |-> 0]
    /\ rx = RxIdle
    /\ app = [d \in DialogIds |-> Dialog]
    /\ events = [d \in DialogIds |-> NoEvents]
    /\ wire = NoWire
    /\ sockOpen = TRUE
    /\ panicked = FALSE
    /\ npkt = 0
    /\ inbound = NoInbound
    /\ sdpio = NoSdp

(* The steps of the dialog tasks, of the application's stream readers and
   of the application's calls. *)
DialogTask(d) ==
    \/ DialogStart(d)
    \/ DialogRequestTimer(d)
    \/ DialogResend(d)
    \/ DialogHangup(d)
    \/ DialogDeliver(d)

Application(d) ==
    \/ NewDialogInsert(d)
    \/ Hangup(d)
    \/ HangupClose(d)

(* One call: the dialog, the responses of the peer, the resend timer and
   the application's hangup. *)
Next ==
    \/ NewDialog(1, 1, 0, "nil")
    \/ \E d \in DialogIds : DialogTask(d)
    \/ \E d \in DialogIds : Application(d)
    \/ \E msg \in {m \in Responses : m.version2 /\ m.call = 1} : ReceiveMessages(msg)
    \/ \E d \in DialogIds : RxDeliver(d)

Spec == Init /\ [][Next]_vars

(* The responses of a call that is answered: 100, 180 and 200 to the
   INVITE. *)
CallResponses ==
    {m \in Responses : /\ m.version2 /\ m.call = 1 /\ m.viaHost /\ m.branch
                        /\ m.method = "INVITE" /\ m.cseq = InviteCSeq
                        /\ m.status \in {100, 180, 200} /\ m.contact /\ ~m.sdp}

(* The requests the peer sends inside the dialog: re-INVITE, ACK, BYE and
   a method that is not allowed, with any CSeq. *)
DialogRequests ==
    {m \in Requests : m.version2 /\ m.call = 1 /\ m.mf > 0 /\ m.method # "OPTIONS"}

(* One call and the requests the peer sends inside the dialog. *)
NextReq ==
    \/ NewDialog(1, 1, 0, "nil")
    \/ \E d \in DialogIds : DialogStart(d)
    \/ \E d \in DialogIds : DialogRequestTimer(d)
    \/ \E d \in DialogIds : DialogResend(d)
    \/ \E d \in DialogIds : DialogResponseTimer(d)
    \/ \E d \in DialogIds : DialogDeliver(d)
    \/ \E d \in DialogIds : NewDialogInsert(d)
    \/ \E msg \in {m \in CallResponses : m.status >= 180} : ReceiveMessages(msg)
    \/ \E msg \in DialogRequests : ReceiveMessages(msg)
    \/ \E d \in DialogIds : RxDeliver(d)

SpecReq == Init /\ [][NextReq]_vars

(* A call that is redirected: provisional responses and 302, with and
   without Contact. *)
RedirectResponses ==
    {m \in Responses : /\ m.version2 /\ m.call = 1 /\ m.viaHost /\ m.branch
                        /\ m.method = "INVITE" /\ m.cseq = InviteCSeq /\ ~m.sdp
                        /\ m.status \in {180, 301, 302}}

NextRedirect ==
    \/ NewDialog(1, 1, 0, "lr")
    \/ \E d \in DialogIds : NewDialogInsert(d)
    \/ \E d \in DialogIds : DialogStart(d)
    \/ \E d \in DialogIds : DialogRequestTimer(d)
    \/ \E d \in DialogIds : DialogResend(d)
    \/ \E d \in DialogIds : DialogDeliver(d)
    \/ \E msg \in RedirectResponses : ReceiveMessages(msg)
    \/ \E d \in DialogIds : RxDeliver(d)

SpecRedirect == Init /\ [][NextRedirect]_vars

(* The simple call: what the peer sends, in this order, once it has the
   INVITE: 100 Trying, 180 Ringing, 200 OK with SDP (each matching the
   INVITE), then a BYE. *)
CallScript ==
    << Msg(TRUE, TRUE, 1, 100, "INVITE", InviteCSeq, TRUE, TRUE, TRUE, FALSE, 0),
       Msg(TRUE, TRUE, 1, 180, "INVITE", InviteCSeq, TRUE, TRUE, TRUE, FALSE, 0),
       Msg(TRUE, TRUE, 1, 200, "INVITE", InviteCSeq, TRUE, TRUE, TRUE, TRUE, 0),
       Msg(FALSE, TRUE, 1, 0, "BYE", MaxCSeq, TRUE, TRUE, TRUE, FALSE, DefaultMaxForwards) >>

(* The next message of the call arrives. *)
PeerCall ==
    /\ npkt < Len(CallScript)
    /\ wire.req # <<>>
    /\ HandleIncomingMessage(CallScript[npkt + 1])

NextCall ==
    \/ NewDialog(1, 1, 0, "nil")
    \/ \E d \in DialogIds : NewDialogInsert(d)
    \/ \E d \in DialogIds : DialogStart(d)
    \/ \E d \in DialogIds : DialogRequestTimer(d)
    \/ \E d \in DialogIds : DialogResend(d)
    \/ \E d \in DialogIds : DialogDeliver(d)
    \/ PeerCall
    \/ \E d \in DialogIds : RxDeliver(d)

SpecCall == Init /\ [][NextCall]_vars

(* Packets for both Call-IDs, of SIP version 2.0 and of another version:
   a 180 to the INVITE and an OPTIONS. *)
DispatchMessages ==
    {m \in Responses : /\ m.status = 180 /\ m.method = "INVITE" /\ m.cseq = InviteCSeq
                        /\ m.viaHost /\ m.branch /\ m.contact /\ ~m.sdp}
    \cup {m \in Requests : m.method = "OPTIONS" /\ m.cseq = MaxCSeq /\ m.mf > 0}

(* Two dialogs and the receive task's dispatch, datagrams that do not
   parse included. *)
NextDispatch ==
    \/ \E d \in DialogIds : NewDialog(d, d, 0, "nil")
    \/ \E d \in DialogIds : NewDialogInsert(d)
    \/ \E d \in DialogIds : DialogStart(d)
    \/ \E d \in DialogIds : DialogDeliver(d)
    \/ \E msg \in DispatchMessages : ReceiveMessages(msg)
    \/ \E msg \in DispatchMessages : ReceiveMalformed(msg)
    \/ \E d \in DialogIds : RxDeliver(d)

SpecDispatch == Init /\ [][NextDispatch]_vars

(* A peer BYE, for either Call-ID. *)
RegRequests ==
    {m \in Requests : m.version2 /\ m.method = "BYE" /\ m.cseq = MaxCSeq /\ m.mf > 0}

(* Several dialogs, possibly under one Call-ID, socket writes that fail
   and the registry. *)
NextReg ==
    \/ \E d \in DialogIds, cid \in CallIDs, mf \in InviteMaxForwards : NewDialog(d, cid, mf, "nil")
    \/ \E d \in DialogIds : NewDialogInsert(d)
    \/ \E d \in DialogIds : DialogStart(d)
    \/ \E d \in DialogIds : DialogRequestTimer(d)
    \/ \E d \in DialogIds : DialogResend(d)
    \/ \E d \in DialogIds : DialogDeliver(d)
    \/ \E msg \in RegRequests : ReceiveMessages(msg)
    \/ \E d \in DialogIds : RxDeliver(d)
    \/ Close

SpecReg == Init /\ [][NextReg]_vars

(* What the peer sends in a call that is answered, refused or ended. *)
LiveResponses ==
    CallResponses \cup
    {m \in Responses : /\ m.version2 /\ m.call = 1 /\ m.viaHost /\ m.branch
                        /\ ~m.sdp
                        /\ \/ m.status = 404 /\ m.method = "INVITE" /\ m.cseq = InviteCSeq
                           \/ /\ m.status = 200 /\ m.method = "BYE" /\ m.cseq = InviteCSeq + 1
                              /\ m.contact}
LiveRequests ==
    {m \in Requests : /\ m.version2 /\ m.call = 1 /\ m.cseq = MaxCSeq
                       /\ \/ m.method = "BYE" /\ m.mf > 0
                          \/ m.method = "OPTIONS" /\ m.mf = 0}

NextLive ==
    \/ NewDialog(1, 1, 0, "nil")
    \/ \E d \in DialogIds : DialogTask(d)
    \/ \E d \in DialogIds : Application(d)
    \/ \E msg \in LiveResponses \cup LiveRequests : ReceiveMessages(msg)
    \/ \E d \in DialogIds : RxDeliver(d)

(* The tasks are scheduled, a timer that was started fires, and the
   application drains the streams and finishes the calls it is in; nothing
   makes the peer send or the application call Hangup(). *)
Fairness ==
    /\ \A d \in DialogIds : WF_vars(DialogTask(d))
    /\ \A d \in DialogIds : WF_vars(RxDeliver(d))
    /\ \A d \in DialogIds : WF_vars(NewDialogInsert(d))
    /\ \A d \in DialogIds : WF_vars(HangupClose(d))

SpecLive == Init /\ [][NextLive]_vars /\ Fairness

TypeOK ==
    /\ npkt \in Nat
    /\ WireLen(wire) <= MaxWire
    /\ \A d \in DialogIds : dlg[d].state \in 0..StatusFailed

(* ---- properties ---- *)

ReqsOf(d) == SelectSeq(wire.req, LAMBDA m : m.call = dlg[d].callID)
CountOf(seq, P(_)) == Cardinality({i \in 1..Len(seq) : P(seq[i])})

(* Hangup and Failed are both terminal and not ordered between them. *)
Rank(s) == IF s = StatusFailed THEN StatusHangup ELSE s

(* C1: the status of a dialog never regresses on the order
   Proceeding < Ringing < Answered < {Hangup, Failed}: no step takes the
   status to a lower rank. *)
C1_StatusNeverRegresses ==
    [][\A d \in DialogIds : Rank(dlg'[d].state) >= Rank(dlg[d].state)]_vars

StateEventsOf(d) ==
    events[d].state
        \o (IF dlg[d].pending.ch = "state" THEN <<dlg[d].pending.val>> ELSE <<>>)
        \o (IF rx.pc = "send" /\ rx.d = d /\ rx.ev.ch = "state" THEN <<rx.ev.val>> ELSE <<>>)

(* C2: once the status of a dialog is Hangup or Failed, no step changes
   the status or emits another state event. *)
C2_TerminalIsFinal ==
    [][\A d \in DialogIds :
         dlg[d].state \in {StatusHangup, StatusFailed}
            => /\ dlg'[d].state = dlg[d].state
               /\ Len(StateEventsOf(d)') = Len(StateEventsOf(d))]_vars

(* C3: whatever the number of Hangup() calls, a dialog originates at most
   one hangup request: at most one CANCEL transmission, and BYE requests
   of at most one CSeq value. *)
C3_HangupAtMostOnce ==
    \A d \in DialogIds :
        /\ CountOf(ReqsOf(d), LAMBDA m : m.method = "CANCEL") <= 1
        /\ Cardinality({ReqsOf(d)[i].cseq : i \in {j \in 1..Len(ReqsOf(d)) :
                                                     ReqsOf(d)[j].method = "BYE"}}) <= 1

(* C4: a request (method and CSeq) is transmitted to one route address at
   most maxResends + 1 times. *)
C4_BoundedRetransmission ==
    \A i \in 1..Len(wire.req) :
        CountOf(wire.req, LAMBDA m : /\ m.call = wire.req[i].call
                                     /\ m.method = wire.req[i].method
                                     /\ m.cseq = wire.req[i].cseq
                                     /\ m.addr = wire.req[i].addr) <= maxResends + 1

C10_RouteFailover ==
    [][\A msg \in Responses :
         (/\ npkt' = npkt + 1
          /\ msg.version2 /\ registry[msg.call] = 1
          /\ msg.status = 503 /\ msg.contact
          /\ dlg[1].request = "invite"
          /\ ResponseMatch(dlg[1], msg)
          /\ dlg[1].routes # <<>>
          /\ HandleIncomingMessage(msg))
         => /\ rx'.ev.ch # "err"
            /\ Len(wire'.req) = Len(wire.req) + 1
            /\ wire'.req[Len(wire'.req)].method = "INVITE"
            /\ wire'.req[Len(wire'.req)].addr = Head(dlg[1].routes)]_vars

(* C6: an inbound in-dialog request with MaxForwards > 0 whose CSeq is
   below a non-zero rSeq is answered 500 and changes no dialog field and
   emits no event; any other one sets rSeq to its CSeq. *)
C6_OutOfOrderRejected ==
    [][\A msg \in DialogRequests :
         (/\ npkt' = npkt + 1
          /\ msg.version2 /\ registry[msg.call] # 0
          /\ msg.mf > 0
          /\ HandleIncomingMessage(msg))
         => LET d == registry[msg.call]
            IN IF dlg[d].rSeq # 0 /\ msg.cseq < dlg[d].rSeq
               THEN /\ wire'.rsp = Append(wire.rsp, WRsp(msg.call, 500))
                    /\ dlg' = dlg
                    /\ events' = events
                    /\ rx' = rx
               ELSE dlg'[d].rSeq = msg.cseq]_vars

C6_Witness ==
    /\ Len(wire.rsp) >= 2
    /\ wire.rsp[Len(wire.rsp)].status = 500
    /\ wire.rsp[1].status = 405
    /\ dlg[1].rSeq = MaxCSeq

DialogAlive(d) == dlg[d].pc \in {"start", "select", "resend", "blocked"}

(* C7: every dialog whose task is alive and whose INVITE has been sent is
   registered under its own Call-ID (the registry, a map, holds at most
   one dialog per Call-ID). *)
C7_AliveIsRegistered ==
    \A d \in DialogIds :
        (DialogAlive(d) /\ dlg[d].request # "nil") => registry[dlg[d].callID] = d

(* C8: once a dialog task has exited, its streams are closed and no
   registry entry points to the dialog. *)
C8_DeadNotRegistered ==
    \A d \in DialogIds :
        dlg[d].pc = "done" => /\ dlg[d].closed
                              /\ \A c \in CallIDs : registry[c] # d

(* The dialog is in a terminal state, or a handler reported a fatal error
   to the application. *)
Terminal(d) == DialogAlive(d) /\ dlg[d].state >= StatusHangup
FatalError(d) == DialogAlive(d) /\ events[d].err # <<>>

(* The task of dialog d has exited and its streams are closed; or the
   whole process died of a panic, or the record of the wire is full (the
   model follows the run no further). *)
Exited(d) ==
    \/ dlg[d].pc = "done" /\ dlg[d].closed
    \/ panicked
    \/ ~CanSend(1)

(* C9: a dialog that reached a terminal state, or whose handler reported
   a fatal error, eventually has its task exited and its streams closed. *)
C9_TerminalExits ==
    \A d \in DialogIds : (Terminal(d) \/ FatalError(d)) ~> Exited(d)

(* C19: once handleResponse has cancelled the resend timer for a response
   matching the current request (requestTimer is nil, the request object
   is kept), no resend-timer step of the dialog task transmits the request
   again, pops a route, reports "Failed to contact" or starts the timer
   again. *)
C19_NoResendAfterResponse ==
    [][\A d \in DialogIds :
         (/\ dlg[d].request # "nil"
          /\ dlg[d].requestTimer = "nil"
          /\ dlg[d].pc \in {"select", "resend"}
          /\ (DialogRequestTimer(d) \/ DialogResend(d)))
         => /\ wire'.req = wire.req
            /\ dlg'[d].pending = NoEvent
            /\ dlg'[d].requestTimer = "nil"
            /\ dlg'[d].request = dlg[d].request]_vars

(* Our CANCEL for the INVITE of dialog d is on the wire. *)
CancelSent(d) == \E i \in 1..Len(ReqsOf(d)) : ReqsOf(d)[i].method = "CANCEL"

(* C11: after Hangup() in Proceeding or Ringing sent a CANCEL, the peer's
   200 OK to the CANCEL (CSeqMethod CANCEL, the INVITE's CSeq and branch)
   is accepted: the dialog transitions to Hangup. *)
C11_CancelOkAccepted ==
    [][\A msg \in Responses :
         (/\ npkt' = npkt + 1
          /\ msg.version2 /\ registry[msg.call] = 1
          /\ msg.status = 200 /\ msg.method = "CANCEL"
          /\ msg.cseq = dlg[1].invite.CSeq
          /\ msg.viaHost /\ msg.branch
          /\ dlg[1].state \in {StatusProceeding, StatusRinging}
          /\ CancelSent(1)
          /\ HandleIncomingMessage(msg))
         => /\ dlg'[1].state = StatusHangup
            /\ rx'.ev = Ev("state", StatusName(StatusHangup))]_vars

(* C17: the handlers, the resend timers and the hangup processing of one
   dialog never overlap: while a handler of the receive task is inside
   the dialog (blocked half-way in a channel send) the dialog task takes
   no step on it, and while the dialog task is inside resendRequest no
   handler changes the dialog. *)
C17_DialogStateSequential ==
    [][\A d \in DialogIds :
         /\ (rx.pc = "send" /\ rx.d = d)
                => ~(DialogRequestTimer(d) \/ DialogResend(d) \/ DialogHangup(d))
         /\ dlg[d].pc = "resend"
                => ~(npkt' = npkt + 1 /\ dlg'[d] # dlg[d])]_vars

(* C18: emitting a state, error or peer-SDP event never blocks the
   emitting task: neither the receive task nor a dialog task is ever
   waiting in a send on a dialog's stream. *)
C18_EmitNeverBlocks ==
    /\ rx.pc # "send"
    /\ \A d \in DialogIds : dlg[d].pc # "blocked"

(* C13: a 301/302 with a Contact that matches the outstanding INVITE
   leaves the status alone, makes the Contact the INVITE's Request-URI and
   clears its Route; when the new target resolves, the INVITE is sent
   again with the new Request-URI (the host resolved is the Contact's) and
   no event is emitted. *)
C13_Redirect ==
    [][\A msg \in RedirectResponses :
         (/\ npkt' = npkt + 1
          /\ registry[msg.call] = 1
          /\ msg.status \in {301, 302} /\ msg.contact
          /\ dlg[1].request = "invite"
          /\ ResponseMatch(dlg[1], msg)
          /\ HandleIncomingMessage(msg))
         => /\ dlg'[1].state = dlg[1].state
            /\ dlg'[1].invite.Request = "contact"
            /\ dlg'[1].invite.Route = "nil"
            /\ \/ /\ rx'.ev = Ev("err", "ResolveError")
                  /\ wire'.req = wire.req
               \/ /\ rx'.ev = NoEvent
                  /\ dlg'[1].dest = "contact"
                  /\ dlg'[1].request = "invite"
                  /\ wire'.req = Append(wire.req,
                                        WReq(1, "INVITE", dlg[1].invite.CSeq,
                                             dlg'[1].addr, dlg'[1].invite.MaxForwards,
                                             "contact"))]_vars

C13_Witness ==
    /\ Len(wire.req) >= 2
    /\ wire.req[1].uri = "orig"
    /\ wire.req[Len(wire.req)].method = "INVITE"
    /\ wire.req[Len(wire.req)].uri = "contact"
    /\ dlg[1].invite.Route = "nil"
    /\ dlg[1].dest = "contact"
    /\ events[1].err = <<>>

(* The four messages of the simple call were each handed to the dialog
   (none was answered 481) and their handlers have returned. *)
CallHandled ==
    /\ npkt = Len(CallScript)
    /\ rx.pc = "idle"
    /\ \A i \in 1..Len(wire.rsp) : wire.rsp[i].status # 481

(* C12: in the simple call (INVITE sent; 100, 180, 200 with SDP, BYE, each
   handled by the dialog, the application draining the streams) the state
   stream delivered exactly Proceeding, Ringing, Answered, Hangup, one
   ACK was sent (for the 200), the only response written is the 200 to
   the BYE, and the peer SDP was delivered exactly once. *)
C12_SimpleCall ==
    CallHandled
        => /\ events[1].state = <<"Proceeding", "Ringing", "Answered", "Hangup">>
           /\ events[1].peer = <<"sdp">>
           /\ wire.ack = <<WReq(1, "ACK", InviteCSeq, dlg[1].addr, SendMF(0), "contact")>>
           /\ wire.rsp = <<WRsp(1, 200)>>
           /\ dlg[1].state = StatusHangup

C12_Witness ==
    /\ CallHandled
    /\ events[1].state = <<"Proceeding", "Ringing", "Answered", "Hangup">>
    /\ events[1].err = <<>>
    /\ Len(wire.ack) = 1

(* The handler of dialog d sent "Remote loop detected" to the application. *)
LoopDetected(d) ==
    /\ DialogAlive(d)
    /\ \E i \in 1..Len(events[d].err) : events[d].err[i] = "RemoteLoop"

(* C14: an inbound in-dialog request with MaxForwards <= 0 is answered
   483, emits "Remote loop detected" and changes neither rSeq nor the
   status; and the dialog then fails: its task terminates. *)
C14_LoopFailsDialog ==
    /\ [][\A msg \in LiveRequests :
            (/\ npkt' = npkt + 1
             /\ registry[msg.call] = 1
             /\ msg.mf <= 0
             /\ HandleIncomingMessage(msg))
            => /\ wire'.rsp = Append(wire.rsp, WRsp(msg.call, 483))
               /\ rx'.ev = Ev("err", "RemoteLoop")
               /\ dlg'[1].rSeq = dlg[1].rSeq
               /\ dlg'[1].state = dlg[1].state]_vars
    /\ \A d \in DialogIds : LoopDetected(d) ~> Exited(d)

(* The application received a ResponseError from dialog d. *)
ResponseErrorSeen(d) ==
    /\ DialogAlive(d)
    /\ \E i \in 1..Len(events[d].err) : events[d].err[i] = "ResponseError"

(* C20: a final response >= 300 matching the outstanding request, other
   than 301/302 and 503 to the INVITE, emits a ResponseError on the error
   stream, with or without a Contact header; and it is fatal: the dialog
   task then terminates and closes the streams. *)
C20_FinalErrorIsFatal ==
    /\ [][\A msg \in LiveResponses :
            (/\ npkt' = npkt + 1
             /\ registry[msg.call] = 1
             /\ msg.status >= 300 /\ msg.status \notin {301, 302}
             /\ dlg[1].request # "nil"
             /\ ~(msg.status = 503 /\ dlg[1].request = "invite")
             /\ ResponseMatch(dlg[1], msg)
             /\ HandleIncomingMessage(msg))
            => rx'.ev = Ev("err", "ResponseError")]_vars
    /\ \A d \in DialogIds : ResponseErrorSeen(d) ~> Exited(d)

(* C15: a message whose SIP version is not 2.0 is answered 505 and reaches
   no dialog; otherwise a message with a registered Call-ID is handled by
   that dialog's handler (handleResponse for a response, handleRequest
   for a request) and changes no other dialog; otherwise it is answered
   481 and no dialog changes. *)
C15_Dispatch ==
    [][\A msg \in DispatchMessages :
         (/\ npkt' = npkt + 1
          /\ HandleIncomingMessage(msg))
         => IF ~msg.version2
            THEN /\ wire' = Sent(wire, WRsp(msg.call, 505))
                 /\ dlg' = dlg /\ rx' = rx
            ELSE IF registry[msg.call] # 0
            THEN LET d == registry[msg.call]
                 IN /\ dlg[d].callID = msg.call
                    /\ \A e \in DialogIds \ {d} : dlg'[e] = dlg[e]
                    /\ rx'.pc = "send" => rx'.d = d
                    /\ \E routes \in ResolverResults(dlg[d].state < StatusAnswered) :
                          LET h == IF msg.isResp
                                   THEN handleResponse(dlg[d], msg, routes, wire, sockOpen)
                                   ELSE handleRequest(dlg[d], msg, wire, sockOpen)
                          IN dlg'[d] = h.r /\ wire' = h.w
            ELSE /\ wire' = Sent(wire, WRsp(msg.call, 481))
                 /\ dlg' = dlg /\ rx' = rx]_vars

C15_Witness ==
    /\ \E i \in 1..Len(wire.rsp) : wire.rsp[i].status = 505
    /\ \E i \in 1..Len(wire.rsp) : wire.rsp[i].status = 481
    /\ \E d \in DialogIds : events[d].state = <<"Ringing">>
    /\ ~panicked

(* C16: a datagram that fails to parse is dropped: no dialog changes,
   nothing is written to the socket, no event is emitted and the receive
   task goes on reading. *)
C16_ParseFailureDropped ==
    [][(\E msg \in DispatchMessages : ReceiveMalformed(msg))
          => UNCHANGED <<dlg, registry, rx, events, wire, panicked>>]_vars

(* The receive task annotates and answers one datagram. *)
NextReceived ==
    \/ \E pkt \in Datagrams, addr \in AddrPorts : ReadDatagram(pkt, addr)
    \/ AnnotateDatagram
    \/ AnswerDatagram

SpecReceived == Init /\ [][NextReceived]_vars

(* C21: the response to a request whose source port differs from the port
   of its topmost Via carries an rport parameter with a value in its
   topmost Via; the response to a request whose source address differs from
   the host of its topmost Via carries received=<source address> there; a
   response that comes in is not annotated. *)
C21_ReceivedRport ==
    /\ inbound.pc = "answered"
         => LET top == inbound.pkt.Via[1]
                addr == inbound.addr
                out == inbound.out
            IN /\ out.sent
               /\ top.Port # addr.Port => out.Via[1].rport \notin {NoParam, ""}
               /\ top.Host # addr.Addr => out.Via[1].received = addr.Addr
    /\ (inbound.pc \in {"annotated", "dispatched"} /\ inbound.pkt.isResp)
         => inbound.msg = inbound.pkt

(* Parse reads a text line by line, in both modes; what it returns is
   written out again and parsed again. *)
NextSdp ==
    \/ \E line \in SdpLines : ParseLoop(line)
    \/ ParseReturn
    \/ \E strict \in BOOLEAN : String(strict)
    \/ \E codecs \in OfferCodecs : NewString(codecs)
    \/ ParseAgain

SpecSdp == Init /\ [][NextSdp]_vars

(* The fields of an SDP a caller can read: everything but the codecs'
   unexported `valid`. *)
ExportedCodec(c) ==
    [PT |-> c.PT, Name |-> c.Name, Rate |-> c.Rate, Param |-> c.Param, Fmtp |-> c.Fmtp]
ExportedMedia(m) ==
    [m EXCEPT !.Codecs = [i \in 1..Len(m.Codecs) |-> ExportedCodec(m.Codecs[i])]]
Exported(sdp) ==
    [sdp EXCEPT !.Media = [i \in 1..Len(sdp.Media) |-> ExportedMedia(sdp.Media[i])]]

(* C22: a text that Parse accepts in strict mode, written out by Append
   and parsed again in strict mode, gives no error and a structure equal
   to the first one in every field. *)
C22_RoundTrip ==
    (sdpio.pc = "reparsed" /\ sdpio.mode = "strict")
        => /\ ~sdpio.again.err
           /\ ~sdpio.again.warn
           /\ Exported(sdpio.again.sdp) = Exported(sdpio.doc)

(* C25: whatever Parse returns without a hard error, in strict or in
   lenient mode, has an origin and a session connect address. *)
C25_MandatoryOriginAddr ==
    sdpio.pc = "parsed"
        => /\ ~sdpio.strict.err
                => ~sdpio.strict.sdp.Origin.nil /\ sdpio.strict.sdp.Addr # ""
           /\ ~sdpio.lenient.err
                => ~sdpio.lenient.sdp.Origin.nil /\ sdpio.lenient.sdp.Addr # ""

(* An a=rtpmap line whose rate is not a number. *)
InvalidRtpmap(line) == line.k = "a" /\ line.key = "rtpmap" /\ Atoi(line.s2) < 0

(* C24, the two modes on one text: when lenient mode returns an SDP, it
   returns a warning with it exactly when strict mode returns a hard
   error. *)
C24_WarningIffStrictError ==
    (sdpio.pc = "parsed" /\ ~sdpio.lenient.err)
        => (sdpio.lenient.warn <=> sdpio.strict.err)

(* C24, the invalid rtpmap: strict mode, reading such a line for the
   current media, returns a hard error, and lenient mode notes a
   warning. *)
C24_InvalidRtpmapRejected ==
    \A line \in SdpLines :
        (/\ sdpio'.n = sdpio.n + 1
         /\ ParseLoop(line)
         /\ InvalidRtpmap(line))
        => /\ (~sdpio.strict.err /\ sdpio.strict.inMedia) => sdpio'.strict.err
           /\ (~sdpio.lenient.err /\ sdpio.lenient.inMedia) => sdpio'.lenient.warn

(* C24: strict mode returns a hard error on any anomaly; lenient mode
   returns the partial SDP and a warning then, and a nil warning only
   when there was no anomaly. *)
C24_StrictErrorLenientWarning ==
    [][C24_InvalidRtpmapRejected]_vars /\ []C24_WarningIffStrictError

(* The place of a line in the session part and in a media block of the
   canonical order. *)
SessionRank(line) ==
    IF line.k = "v" THEN 0 ELSE IF line.k = "o" THEN 1 ELSE IF line.k = "s" THEN 2
    ELSE IF line.k = "c" THEN 3 ELSE IF line.k = "t" THEN 4
    ELSE IF line.k = "a" THEN 5 ELSE 6

MediaRank(line) ==
    IF line.k = "m" THEN 0 ELSE IF line.k = "c" THEN 1
    ELSE IF line.k # "a" THEN 7
    ELSE IF line.key \in {"rtpmap", "fmtp"} THEN 2
    ELSE IF line.key = "ptime" THEN 4
    ELSE IF line.key = "maxptime" THEN 5
    ELSE IF line.key \in MediaDirections THEN 6
    ELSE 3

NonDecreasing(ranks) == \A i \in 1..(Len(ranks) - 1) : ranks[i] <= ranks[i + 1]

(* The lines of `out` from the j-th m= line up to the next m= line. *)
MediaBlock(out, j) ==
    LET IsM(i) == out[i].k = "m"
        ms == SelectSeq([i \in 1..Len(out) |-> i], IsM)
    IN SubSeq(out, ms[j], IF j < Len(ms) THEN ms[j + 1] - 1 ELSE Len(out))

SessionPart(out) ==
    LET ms == {i \in 1..Len(out) : out[i].k = "m"}
    IN SubSeq(out, 1, IF ms = {} THEN Len(out)
                      ELSE (CHOOSE i \in ms : \A k \in ms : i <= k) - 1)

(* A media block is in canonical order for the media it was written from. *)
CanonicalBlock(block, media) ==
    LET IsRtpmap(l) == l.k = "a" /\ l.key = "rtpmap"
        IsFmtp(l) == l.k = "a" /\ l.key = "fmtp"
        IsAttr(l) == MediaRank(l) = 3
        HasFmtp(c) == c.Fmtp # ""
        Count(r) == Cardinality({i \in 1..Len(block) : MediaRank(block[i]) = r})
        rtpmaps == SelectSeq(block, IsRtpmap)
    IN /\ NonDecreasing([i \in 1..Len(block) |-> MediaRank(block[i])])
       /\ \A i \in 1..Len(block) : MediaRank(block[i]) <= 6
       /\ block[1].pts = [i \in 1..Len(media.Codecs) |-> media.Codecs[i].PT]
       /\ Count(1) = IF media.Addr # "" THEN 1 ELSE 0
       /\ [i \in 1..Len(rtpmaps) |-> rtpmaps[i].pt] = block[1].pts
       /\ \A i \in 1..Len(block) :
             IsFmtp(block[i]) => i > 1 /\ IsRtpmap(block[i - 1]) /\ block[i - 1].pt = block[i].pt
       /\ Len(SelectSeq(block, IsFmtp)) = Len(SelectSeq(media.Codecs, HasFmtp))
       /\ SelectSeq(block, IsAttr) = [i \in 1..Len(media.Attrs) |-> AttrLine(media.Attrs[i])]
       /\ Count(4) = IF media.Ptime > 0 THEN 1 ELSE 0
       /\ Count(5) = IF media.Maxptime > 0 THEN 1 ELSE 0
       /\ Count(6) = IF media.Direction # "" THEN 1 ELSE 0

(* C23: the text Append writes is in canonical order: v=, o=, s= ("-"
   for an empty name), c=, t= ("0 0" for an empty time), the session's a=
   lines, the session's other lines, then per media its m= line, its c=
   line if it has an address, per codec in m= order the rtpmap line and
   right after it the fmtp line if any, the media's attributes in
   insertion order, ptime, maxptime and the direction last, with a zero
   ptime or maxptime and an empty direction left out. *)
C23_CanonicalOrder ==
    sdpio.pc \in {"serialized", "reparsed"}
        => LET out == sdpio.out
               doc == sdpio.doc
               session == SessionPart(out)
           IN /\ Len(session) >= 5
              /\ \A i \in 1..5 : SessionRank(session[i]) = i - 1
              /\ \A i \in 6..Len(session) : SessionRank(session[i]) \in {5, 6}
              /\ NonDecreasing([i \in 1..Len(session) |-> SessionRank(session[i])])
              /\ session[3].s1 = IF doc.Session = "" THEN "-" ELSE doc.Session
              /\ session[5].s1 = IF doc.Time = "" THEN "0 0" ELSE doc.Time
              /\ Cardinality({i \in 1..Len(out) : out[i].k = "m"}) = Len(doc.Media)
              /\ \A j \in 1..Len(doc.Media) : CanonicalBlock(MediaBlock(out, j), doc.Media[j])

(* A media with a c= line, a codec with fmtp, an attribute, a ptime and a
   direction has been written. *)
C23_Witness ==
    /\ sdpio.pc = "serialized"
    /\ sdpio.mode = "strict"
    /\ \E j \in 1..Len(sdpio.doc.Media) :
          /\ sdpio.doc.Media[j].Direction # ""
          /\ sdpio.doc.Media[j].Ptime > 0

(* The Max-Forwards an application gives its INVITE: none (0, the default
   is filled in) or a small one. *)
ResendMaxForwards == {0, 3}

(* Dialogs whose requests get no response: only the resend timer runs. *)
NextResend ==
    \/ \E d \in DialogIds, mf \in ResendMaxForwards : NewDialog(d, d, mf, "nil")
    \/ \E d \in DialogIds : NewDialogInsert(d)
    \/ \E d \in DialogIds : DialogStart(d)
    \/ \E d \in DialogIds : DialogRequestTimer(d)
    \/ \E d \in DialogIds : DialogResend(d)
    \/ \E d \in DialogIds : DialogDeliver(d)

SpecResend == Init /\ [][NextResend]_vars

(* The addresses the INVITEs of dialog d were sent to, in order. *)
SentTo(d) ==
    LET Mine(m) == m.call = dlg[d].callID
        reqs == SelectSeq(wire.req, Mine)
    IN [i \in 1..Len(reqs) |-> reqs[i].addr]

(* C26: a request that gets no response is sent maxResends + 1 times to
   each route in turn, and when the routes are used up the error "Failed
   to contact" is emitted and the dialog task exits: a dialog task that has
   exited sent its INVITE R * (maxResends + 1) times, R the number of
   routes, and emitted that error. *)
C26_ResendThenNextRoute ==
    \A d \in DialogIds :
        (dlg[d].pc = "done" /\ dlg[d].addr # "none")
            => LET R == IF dlg[d].addr = "A" THEN 1 ELSE 2
               IN /\ SentTo(d) = [i \in 1..(R * (maxResends + 1)) |->
                                     IF i <= maxResends + 1 THEN "A" ELSE "B"]
                  /\ events[d].err = <<"FailedToContact">>

(* The responses the peer (or anybody else) sends under the Call-ID of the
   one call of Spec. *)
SpecResponses == {m \in Responses : m.version2 /\ m.call = 1}

(* msg answers the request the dialog has outstanding: there is one, msg
   is a response with its CSeq number and its method, and the topmost Via
   is ours by host/port and by branch. *)
MatchesOutstanding(r, msg) ==
    /\ r.request # "nil"
    /\ msg.isResp
    /\ msg.cseq = (IF r.request = "invite" THEN r.invite.CSeq ELSE r.bye.CSeq)
    /\ msg.method = (IF r.request = "invite" THEN "INVITE" ELSE "BYE")
    /\ msg.viaHost
    /\ msg.branch

(* C27: a response that does not match the dialog's outstanding request
   changes nothing: the dialog record (status, routes, timers, remote,
   request) is as before, no ACK or other packet is sent, no event is
   emitted and the receive task goes on reading. *)
C27_UnmatchedResponseIgnored ==
    [][\A msg \in SpecResponses :
          (/\ npkt' = npkt + 1
           /\ registry[msg.call] # 0
           /\ ~MatchesOutstanding(dlg[registry[msg.call]], msg)
           /\ ReceiveMessages(msg))
              => /\ dlg' = dlg
                 /\ wire' = wire
                 /\ events' = events
                 /\ rx' = rx
                 /\ panicked' = panicked]_vars

(* The Answered events dialog d has emitted: delivered, or being sent. *)
AnsweredEvents(d) ==
    LET IsAnswered(v) == v = StatusName(StatusAnswered)
    IN CountOf(StateEventsOf(d), IsAnswered)

(* The handling of a 200 OK that matches the outstanding INVITE: the ACK
   goes out with the INVITE's CSeq number and the Contact of the response
   as Request-URI, and `remote` becomes the response, at once or after
   the Answered event was taken. *)
AckFor200 ==
    \A msg \in {m \in CallResponses : m.status = 200} :
        (/\ npkt' = npkt + 1
         /\ registry[msg.call] = 1
         /\ MatchesOutstanding(dlg[1], msg)
         /\ dlg[1].request = "invite"
         /\ ReceiveMessages(msg))
            => /\ wire'.ack = Append(wire.ack,
                                     WReq(1, "ACK", dlg[1].invite.CSeq, dlg[1].addr,
                                          SendMF(0), "contact"))
               /\ \/ dlg'[1].remote = "2xx" /\ rx'.pc = "idle"
                  \/ /\ rx'.pc = "send" /\ rx'.cont = "remote"
                     /\ rx'.ev = Ev("state", StatusName(StatusAnswered))

(* The dialog is Answered exactly once, by the first 200 OK that was
   acknowledged. *)
AnsweredOnce ==
    \A d \in DialogIds :
        dlg[d].pc # "none"
            => AnsweredEvents(d) = (IF ReqsOf(d) # <<>> /\ wire.ack # <<>> THEN 1 ELSE 0)

(* C28: every 200 OK matching the outstanding INVITE, the first one and
   each retransmission, is answered with an ACK (Request-URI the Contact
   of the response, CSeq number of the INVITE) and becomes `remote`; the
   Answered event is emitted exactly once, on the first such 200 OK. *)
C28_AckAndAnsweredOnce == [][AckFor200]_vars /\ []AnsweredOnce

(* The requests the peer sends inside the dialog, OPTIONS included, with
   one of two CSeq numbers so that they arrive in and out of order. *)
InDialogRequests ==
    {m \in Requests : m.version2 /\ m.call = 1 /\ m.mf > 0 /\ m.cseq >= MaxCSeq - 1}

(* One call, answered or not, and every kind of request inside it. *)
NextInDialog ==
    \/ NewDialog(1, 1, 0, "nil")
    \/ \E d \in DialogIds : NewDialogInsert(d)
    \/ \E d \in DialogIds : DialogStart(d)
    \/ \E d \in DialogIds : DialogRequestTimer(d)
    \/ \E d \in DialogIds : DialogResend(d)
    \/ \E d \in DialogIds : DialogResponseTimer(d)
    \/ \E d \in DialogIds : DialogDeliver(d)
    \/ \E msg \in {m \in CallResponses : m.status = 200} : ReceiveMessages(msg)
    \/ \E msg \in InDialogRequests : ReceiveMessages(msg)
    \/ \E d \in DialogIds : RxDeliver(d)

SpecInDialog == Init /\ [][NextInDialog]_vars

(* The request passes handleRequest's Max-Forwards and CSeq checks. *)
PassesChecks(r, msg) ==
    /\ msg.mf > 0
    /\ r.rSeq = 0 \/ msg.cseq >= r.rSeq

(* The 200 OK was written and is kept in the response slot with its
   resend timer started. *)
SentReliably(cseq) ==
    /\ wire'.rsp = Append(wire.rsp, WRsp(1, 200))
    /\ dlg'[1].response = "set"
    /\ dlg'[1].responseCSeq = cseq
    /\ dlg'[1].responseResends = 0
    /\ dlg'[1].responseTimer = "armed"

(* handleRequest's switch, method by method, for a request handed to
   dialog 1. *)
RequestHandled ==
    \A msg \in InDialogRequests :
        (/\ npkt' = npkt + 1
         /\ registry[msg.call] = 1
         /\ PassesChecks(dlg[1], msg)
         /\ ReceiveMessages(msg))
            => CASE msg.method = "BYE" ->
                      /\ wire'.rsp = Append(wire.rsp, WRsp(1, 200))
                      /\ dlg'[1].state = StatusHangup
                 [] msg.method = "OPTIONS" ->
                      /\ wire'.rsp = Append(wire.rsp, WRsp(1, 200))
                      /\ dlg'[1].state = dlg[1].state
                      /\ rx' = rx
                 [] msg.method = "INVITE" ->
                      /\ dlg'[1].remote = "reinvite"
                      /\ dlg'[1].state = dlg[1].state
                      /\ IF msg.sdp
                         THEN /\ rx'.pc = "send" /\ rx'.ev = Ev("peer", "sdp")
                              /\ rx'.cont = "response"
                              /\ wire' = wire
                         ELSE SentReliably(msg.cseq) /\ rx' = rx
                 [] msg.method = "ACK" ->
                      /\ dlg'[1].response = "nil"
                      /\ dlg'[1].responseTimer = "nil"
                      /\ dlg'[1].state = dlg[1].state
                      /\ wire' = wire
                      /\ rx' = rx
                 [] OTHER ->
                      /\ wire'.rsp = Append(wire.rsp, WRsp(1, 405))
                      /\ dlg'[1].state = dlg[1].state
                      /\ rx' = rx

(* The application took the SDP of the re-INVITE: the 200 OK follows. *)
SdpThenResponse ==
    (/\ rx.pc = "send" /\ rx.d = 1 /\ rx.cont = "response"
     /\ RxDeliver(1))
        => /\ events'[1].peer = Append(events[1].peer, "sdp")
           /\ SentReliably(rx.msg.cseq)

(* C29: an inbound in-dialog request that passes the Max-Forwards and
   CSeq checks is handled by its method: BYE is answered 200 OK and the
   status becomes Hangup; OPTIONS is answered 200 OK and the status stays;
   INVITE replaces `remote`, hands its SDP to the application and is
   answered 200 OK through the response slot (kept, timer started); ACK
   clears the response slot and its timer; any other method is answered
   405 and the status stays. *)
C29_RequestByMethod == [][RequestHandled /\ SdpThenResponse]_vars

(* A re-INVITE with SDP was handled to its end in a dialog that is
   Answered, and the peer's ACK then cleared the response slot. *)
C29_Witness ==
    /\ dlg[1].state = StatusAnswered
    /\ dlg[1].remote = "reinvite"
    /\ events[1].peer = <<"sdp">>
    /\ \E i \in 1..Len(wire.rsp) : wire.rsp[i] = WRsp(1, 200)
    /\ dlg[1].response = "nil"
    /\ dlg[1].responseCSeq > 0
    /\ rx.pc = "idle"

(* The 200 OKs written for dialog 1's Call-ID. *)
OkResponses ==
    LET IsOk(m) == m = WRsp(1, 200)
    IN CountOf(wire.rsp, IsOk)

(* Dialog d keeps a 200 OK to a re-INVITE that was not acknowledged, its
   resend timer running. *)
ResponsePending(d) ==
    /\ dlg[d].response = "set"
    /\ dlg[d].responseTimer = "armed"

(* The task of dialog d waits in run()'s select on no timer at all: only
   Hangup() can wake it. *)
IdleWait(d) ==
    /\ dlg[d].pc = "select"
    /\ dlg[d].selReq = "nil"
    /\ dlg[d].selResp = "nil"

(* The response timer fires: the pending 200 OK is written again and the
   timer restarted while responseResends < maxResends, and nothing is
   written once the ACK has cleared the slot. *)
ResendOnTimer ==
    (/\ dlg[1].pc = "select"
     /\ DialogResponseTimer(1))
        => IF dlg[1].response = "nil" \/ dlg[1].responseTimer = "nil"
           THEN wire' = wire
           ELSE dlg[1].responseResends < maxResends
                   => /\ wire'.rsp = Append(wire.rsp, WRsp(1, 200))
                      /\ dlg'[1].responseResends = dlg[1].responseResends + 1
                      /\ dlg'[1].responseTimer = "armed"

(* The task that has to re-send a pending 200 OK waits for its timer. *)
PendingIsWatched ==
    \A d \in DialogIds : ResponsePending(d) => ~IdleWait(d)

(* C30: the 200 OK to a re-INVITE is re-sent when its timer fires, up to
   maxResends times, and not once the ACK has cleared the response and
   its timer; and the dialog task waits for that timer whenever a 200 OK
   is pending, also when it was waiting on no timer at the moment the
   re-INVITE was handled. *)
C30_ResponseRetransmitted == [][ResendOnTimer]_vars /\ []PendingIsWatched

(* The answers to the INVITE that make the dialog resolve a destination
   again: 200 OK (then BYE on hangup) and 302. *)
RouteResponses ==
    {m \in Responses : /\ m.version2 /\ m.call = 1 /\ m.viaHost /\ m.branch
                        /\ m.method = "INVITE" /\ m.cseq = InviteCSeq
                        /\ m.contact /\ ~m.sdp /\ m.status \in {200, 302}}

(* One call that is answered or redirected, the resend timer, and the
   application's hangup. *)
NextRoutes ==
    \/ NewDialog(1, 1, 0, "nil")
    \/ \E d \in DialogIds : DialogTask(d)
    \/ \E d \in DialogIds : Application(d)
    \/ \E msg \in RouteResponses : ReceiveMessages(msg)
    \/ \E d \in DialogIds : RxDeliver(d)

SpecRoutes == Init /\ [][NextRoutes]_vars

(* s is what is left of t after some of its first entries were taken. *)
IsSuffix(s, t) ==
    /\ Len(s) <= Len(t)
    /\ \A i \in 1..Len(s) : s[i] = t[Len(t) - Len(s) + i]

(* The step runs sendRequest for dialog d: run() starting, hangup() sending
   the BYE, or handleResponse following a redirect. *)
SendRequestStep(d) ==
    \/ DialogStart(d)
    \/ dlg[d].state = StatusAnswered /\ DialogHangup(d)
    \/ \E msg \in {m \in RouteResponses : m.status = 302} :
          /\ registry[msg.call] = d
          /\ ReceiveMessages(msg)

(* C31 as stated: once the routes of the INVITE have been computed, the
   list only shrinks: every later value is what is left of the earlier
   one. *)
C31_RoutesOnlyShrink ==
    [][\A d \in DialogIds :
          dlg[d].request # "nil" => IsSuffix(dlg'[d].routes, dlg[d].routes)]_vars

(* C31, amended: the route list only shrinks between two calls of
   sendRequest: a step that does not run sendRequest leaves what is left
   of the list before it (popRoute takes the first entry, handleResponse
   clears the list); sendRequest, for the INVITE, its redirect and the
   BYE, replaces it by the tail of what the resolver returned. *)
C31_RoutesShrinkBetweenRequests ==
    [][\A d \in DialogIds :
          \/ IsSuffix(dlg'[d].routes, dlg[d].routes)
          \/ /\ SendRequestStep(d)
             /\ \E routes \in ResolverResults(dlg[d].state < StatusAnswered) \ {<<>>} :
                   dlg'[d].routes = Tail(routes)]_vars

(* The second route was popped after the first one did not answer: the
   list shrank to nothing. *)
C31_Witness ==
    /\ dlg[1].addr = "B"
    /\ dlg[1].routes = <<>>
    /\ Len(ReqsOf(1)) = maxResends + 2

(* hangup() runs for dialog d before any provisional response arrived. *)
EarlyHangup(d) ==
    /\ dlg[d].pc = "select"
    /\ dlg[d].state = 0
    /\ DialogHangup(d)

(* The task of dialog d hands the Hangup event of hangup() to the
   application. *)
HangupDelivered(d) ==
    /\ dlg[d].pc = "blocked"
    /\ dlg[d].pending = Ev("state", StatusName(StatusHangup))
    /\ DialogDeliver(d)

(* C32: when hangup() runs while the status is still the initial one, the
   status becomes Hangup and the Hangup event is emitted without any
   packet being written (no CANCEL, no BYE), and once the application has
   taken the event the dialog task exits. *)
C32_EarlyHangup ==
    [][\A d \in DialogIds :
          /\ EarlyHangup(d)
                => /\ dlg'[d].state = StatusHangup
                   /\ dlg'[d].pc = "blocked"
                   /\ dlg'[d].pending = Ev("state", StatusName(StatusHangup))
                   /\ wire' = wire
          /\ HangupDelivered(d)
                => /\ events'[d].state = Append(events[d].state, StatusName(StatusHangup))
                   /\ dlg'[d].pc = "done"
                   /\ dlg'[d].closed
                   /\ wire' = wire]_vars

(* The call was hung up before any response: the task has exited, the
   application has the Hangup event and only the INVITE was written. *)
C32_Witness ==
    /\ dlg[1].pc = "done"
    /\ dlg[1].state = StatusHangup
    /\ events[1].state = <<StatusName(StatusHangup)>>
    /\ wire.req # <<>>
    /\ \A i \in 1..Len(wire.req) : wire.req[i].method = "INVITE"
    /\ npkt = 0

(* The codecs of every media of a parse in progress, media by media. *)
CodecsOf(p) == [i \in 1..Len(p.sdp.Media) |-> p.sdp.Media[i].Codecs]

(* The codec an a=rtpmap or a=fmtp line for payload type pt is for: the
   first one of the current (last) media with that payload type. *)
IsTarget(p, i, j, pt) ==
    /\ i = Len(p.sdp.Media)
    /\ p.sdp.Media[i].Codecs[j].PT = pt
    /\ \A k \in 1..(j - 1) : p.sdp.Media[i].Codecs[k].PT # pt

(* What reading one line does to the codecs, from p to q. *)
CodecLineEffect(p, q, line) ==
    LET last == Len(p.sdp.Media)
    IN IF line.k = "m"
       THEN /\ \A i \in 1..last : CodecsOf(q)[i] = CodecsOf(p)[i]
            /\ Len(q.sdp.Media) \in {last, last + 1}
            /\ Len(q.sdp.Media) = last + 1
                  => LET cs == q.sdp.Media[last + 1].Codecs
                     IN /\ Len(cs) = Len(line.pts)
                        /\ \A j \in 1..Len(cs) :
                              /\ cs[j].PT = line.pts[j]
                              /\ IF line.pts[j] < 96
                                 THEN /\ IsValid(cs[j])
                                      /\ line.pts[j] = 0
                                            => cs[j].Name = "PCMU" /\ cs[j].Rate = 8000
                                 ELSE ~IsValid(cs[j])
       ELSE IF line.k = "a" /\ line.key \in {"rtpmap", "fmtp"}
                 /\ p.inMedia /\ ~p.skippingInvalidMedia
       THEN /\ Len(q.sdp.Media) = last
            /\ \A i \in 1..last : \A j \in 1..Len(CodecsOf(p)[i]) :
                  IF IsTarget(p, i, j, line.pt)
                  THEN IF line.key = "fmtp"
                       THEN CodecsOf(q)[i][j] = [CodecsOf(p)[i][j] EXCEPT !.Fmtp = line.s1]
                       ELSE Atoi(line.s2) >= 0
                               => CodecsOf(q)[i][j] =
                                     [CodecsOf(p)[i][j] EXCEPT !.Name = line.s1,
                                                               !.Rate = Atoi(line.s2),
                                                               !.valid = TRUE]
                  ELSE CodecsOf(q)[i][j] = CodecsOf(p)[i][j]
       ELSE CodecsOf(q) = CodecsOf(p)

(* A dynamic payload type of p was given no rtpmap. *)
MissingRtpmap(p) ==
    \E i \in 1..Len(p.sdp.Media) : \E j \in 1..Len(p.sdp.Media[i].Codecs) :
        /\ p.sdp.Media[i].Codecs[j].PT >= 96
        /\ ~p.sdp.Media[i].Codecs[j].valid

(* Parse reads a line: its effect on the codecs, in both modes. *)
CodecsByLine ==
    \A line \in SdpLines :
        (sdpio'.n = sdpio.n + 1 /\ ParseLoop(line))
            => /\ ~sdpio'.strict.err
                     => CodecLineEffect(sdpio.strict, sdpio'.strict, line)
               /\ ~sdpio'.lenient.err
                     => CodecLineEffect(sdpio.lenient, sdpio'.lenient, line)

(* Parse returns: a dynamic type without rtpmap is a hard error in strict
   mode and a warning in lenient mode. *)
CodecsAtReturn ==
    (sdpio.pc = "parse" /\ ParseReturn)
        => /\ MissingRtpmap(sdpio.strict) => sdpio'.strict.err
           /\ MissingRtpmap(sdpio.lenient) => sdpio'.lenient.err \/ sdpio'.lenient.warn
           /\ CodecsOf(sdpio'.strict) = CodecsOf(sdpio.strict)
           /\ CodecsOf(sdpio'.lenient) = CodecsOf(sdpio.lenient)

(* C33: the codecs of a media are the payload types of its m= line, in
   that order; a static type is valid from the start, with the name and
   rate of the built-in table (0 is PCMU/8000); a dynamic type becomes
   valid only by an a=rtpmap line for it in the same media block, and
   without one strict Parse fails and lenient Parse returns a warning; an
   a=rtpmap or a=fmtp line changes only the codec of its payload type in
   the current media. *)
C33_CodecsByPayloadType == [][CodecsByLine /\ CodecsAtReturn]_vars

(* Strict Parse returned a media with the static type 0 from the table
   and the dynamic type 96 made valid by its rtpmap line. *)
C33_Witness ==
    /\ sdpio.pc = "parsed"
    /\ ~sdpio.strict.err
    /\ Len(sdpio.strict.sdp.Media) = 1
    /\ LET cs == sdpio.strict.sdp.Media[1].Codecs
       IN /\ Len(cs) = 2
          /\ cs[1] = [PT |-> 0, Name |-> "PCMU", Rate |-> 8000, Param |-> "",
                      Fmtp |-> "", valid |-> FALSE]
          /\ cs[2].PT = 96 /\ cs[2].valid /\ cs[2].Name = "opus" /\ cs[2].Rate = 48000

(* Lines for the attachment by position: session lines, a media, a
   disabled media (port 0), an m= line without payload types (rejected),
   and lines that follow them. *)
AttachLines ==
    { Line("o", "1", 0, "root", "h1", 0, <<>>),          \* o=root 1 1 IN IP4 h1
      Line("c", "", 0, "IP4", "h1", 0, <<>>),            \* c=IN IP4 h1
      Line("c", "", 0, "IP4", "h2", 0, <<>>),            \* c=IN IP4 h2
      Line("m", "audio", 0, "RTP/AVP", "", 4000, <<0>>), \* m=audio 4000 RTP/AVP 0
      Line("m", "video", 0, "RTP/AVP", "", 0, <<0>>),    \* m=video 0 RTP/AVP 0
      Line("m", "audio", 0, "RTP/AVP", "", 4000, <<>>),  \* m=audio 4000 RTP/AVP
      Line("a", "sendrecv", 0, "", "", 0, <<>>),         \* a=sendrecv
      Line("a", "foo", 0, "bar", "", 0, <<>>),           \* a=foo:bar
      Line("b", "", 0, "AS:64", "", 0, <<>>) }           \* b=AS:64

NextAttach ==
    \/ \E line \in AttachLines : ParseLoop(line)
    \/ ParseReturn

SpecAttach == Init /\ [][NextAttach]_vars

(* The session part of an SDP: everything but the media. *)
SessionOf(sdp) == [sdp EXCEPT !.Media = <<>>]

(* What reading a c=, a= or unknown line does, from p to q: nothing while
   the lines of a disabled or rejected media are skipped; before any m=
   line it goes to the session; after an m= line to the last media. *)
AttachEffect(p, q, line) ==
    LET last == Len(p.sdp.Media)
    IN IF p.skippingInvalidMedia
       THEN q = p
       ELSE IF ~p.inMedia
       THEN /\ q.sdp.Media = p.sdp.Media
            /\ line.key = "foo" => q.sdp.Attrs = Append(p.sdp.Attrs, Attr(line))
            /\ line.k = "b" => q.sdp.Other = Append(p.sdp.Other, <<"b", line.s1>>)
            /\ (line.key = "sendrecv" /\ p.sdp.Direction = "")
                  => q.sdp.Direction = "sendrecv"
       ELSE /\ SessionOf(q.sdp) = SessionOf(p.sdp)
            /\ Len(q.sdp.Media) = last
            /\ \A i \in 1..(last - 1) : q.sdp.Media[i] = p.sdp.Media[i]
            /\ line.key = "foo"
                  => q.sdp.Media[last].Attrs = Append(p.sdp.Media[last].Attrs, Attr(line))
            /\ line.k = "b"
                  => q.sdp.Media[last].Other =
                        Append(p.sdp.Media[last].Other, <<"b", line.s1>>)
            /\ (line.k = "c" /\ p.sdp.Media[last].Addr = "")
                  => q.sdp.Media[last].Addr = line.s2
            /\ (line.key = "sendrecv" /\ p.sdp.Media[last].Direction = "")
                  => q.sdp.Media[last].Direction = "sendrecv"

(* What reading an m= line of a disabled (port 0) or rejected media
   does: no Media is added and the lines that follow are skipped. *)
NoMediaEffect(p, q, line) ==
    (line.n = 0 \/ line.pts = <<>>)
        => /\ q.sdp = p.sdp
           /\ q.skippingInvalidMedia
           /\ ~q.inMedia
           /\ line.pts # <<>> => q.warn = p.warn

(* Parse reads a line, in the one mode (p to q). *)
AttachStep(p, q, line) ==
    (~p.err /\ ~q.err)
        => IF line.k = "m" THEN NoMediaEffect(p, q, line)
           ELSE line.k \in {"c", "a", "b"} => AttachEffect(p, q, line)

(* C34: lines are attached by position.  An a= line (and c=, unknown
   lines) before any m= line changes the session only; after an m= line
   they change the media of the most recent m= line only; an m= line with
   port 0 or one that is rejected adds no Media, and the c=, a= and
   unknown lines after it, up to the next m= line, change nothing and
   raise no warning. *)
C34_AttachedByPosition ==
    [][\A line \in AttachLines :
          (sdpio'.n = sdpio.n + 1 /\ ParseLoop(line))
              => /\ AttachStep(sdpio.strict, sdpio'.strict, line)
                 /\ AttachStep(sdpio.lenient, sdpio'.lenient, line)]_vars

(* Lenient Parse returned one media; the attribute after the disabled
   media that followed it was dropped without a warning. *)
C34_Witness ==
    /\ sdpio.pc = "parsed"
    /\ sdpio.n = 4
    /\ ~sdpio.lenient.err /\ ~sdpio.lenient.warn
    /\ ~sdpio.strict.err
    /\ sdpio.lenient.skippingInvalidMedia
    /\ Len(sdpio.lenient.sdp.Media) = 1
    /\ sdpio.lenient.sdp.Media[1].Attrs = <<>>
    /\ sdpio.lenient.sdp.Attrs = <<>>

(* C35: no event is sent on a dialog's stream after cleanup has closed
   it: the receive task is never inside a send on a stream of a dialog
   whose streams are closed. *)
C35_NoSendOnClosedStream ==
    \A d \in DialogIds : ~(rx.pc = "send" /\ rx.d = d /\ dlg[d].closed)

(* C36: every call to Dialog.Hangup() returns.  A call that waits in the
   send on doHangup needs the dialog task to receive the value; so no
   call is ever waiting there for a dialog whose task has exited. *)
C36_HangupReturns ==
    \A d \in DialogIds : ~(app[d].hpc = "send" /\ dlg[d].pc = "done")

(* C37: whenever a 200 OK matching the outstanding INVITE has been
   accepted and ACKed, the dialog's status is at least Answered and an
   Answered state event has been emitted, also when a request of the peer
   on the same Call-ID was handled before the 200 OK. *)
C37_AckedIsAnswered ==
    \A d \in DialogIds :
        (dlg[d].pc # "none" /\ ReqsOf(d) # <<>> /\ wire.ack # <<>>)
            => /\ dlg[d].state >= StatusAnswered
               /\ AnsweredEvents(d) >= 1

(* C38: every transmission of the same outbound request (the first one,
   each resend on the timer and each send on a later route) carries the
   same Max-Forwards value. *)
C38_SameMaxForwards ==
    \A i, j \in 1..Len(wire.req) :
        (/\ wire.req[i].call = wire.req[j].call
         /\ wire.req[i].method = wire.req[j].method
         /\ wire.req[i].cseq = wire.req[j].cseq)
            => wire.req[i].mf = wire.req[j].mf

(* strconv.Atoi of an rport value. *)
PortNumber(str) == IF str = "5060" THEN 5060 ELSE 5062

(* RouteMessage for a response whose topmost Via is `via`: the host is
   the received parameter when there is one, the port the rport parameter
   when it has a value. *)
RouteResponse(via) ==
    [Addr |-> IF via.received # NoParam THEN via.received ELSE via.Host,
     Port |-> IF via.rport # NoParam /\ via.rport # "" THEN PortNumber(via.rport) ELSE via.Port]

(* C39: with no proxy configured, the response to an inbound request
   (one that did not carry this server's own Via on top) is sent to the
   address and port its datagram came from, whatever received and rport
   values the request's Via carried. *)
C39_ResponseToSource ==
    (/\ inbound.pc = "answered"
     /\ inbound.out.sent
     /\ ~CompareHostPort(LocalVia, inbound.pkt.Via[1]))
        => RouteResponse(inbound.out.Via[1]) = inbound.addr

(* Texts with attribute lines that lack the colon or the value. *)
MalformedLines ==
    { Line("o", "1", 0, "root", "h1", 0, <<>>),          \* o=root 1 1 IN IP4 h1
      Line("c", "", 0, "IP4", "h1", 0, <<>>),            \* c=IN IP4 h1
      Line("m", "audio", 0, "RTP/AVP", "", 4000, <<0>>), \* m=audio 4000 RTP/AVP 0
      Line("m", "video", 0, "RTP/AVP", "", 0, <<0>>),    \* m=video 0 RTP/AVP 0
      Line("a", "ptime", 0, "20", "", 0, <<>>),          \* a=ptime:20
      ShortLine("ptime", "colon"),                       \* a=ptime
      ShortLine("ptime", "value"),                       \* a=ptime:
      ShortLine("maxptime", "colon"),                    \* a=maxptime
      ShortLine("rtpmap", "colon"),                      \* a=rtpmap
      ShortLine("rtpmap", "value"),                      \* a=rtpmap:0
      ShortLine("fmtp", "value"),                        \* a=fmtp:0
      ShortLine("foo", "colon") }                        \* a=foo

NextMalformed ==
    \/ \E line \in MalformedLines : ParseLoop(line)
    \/ ParseReturn

SpecMalformed == Init /\ [][NextMalformed]_vars

(* C40: Parse returns normally for every text, in strict and in lenient
   mode: it never aborts on an attribute line. *)
C40_ParseNeverAborts == ~sdpio.strict.panic /\ ~sdpio.lenient.panic

====
